---- MODULE Spec2Model ----
(***************************************************************************)
(* Model of the careerflow-agent-core natural-language orchestration       *)
(* pipeline: NLChatOrchestrator.handle_message, the manual translation     *)
(* override, the NLRoute routing contract, the three capability agents     *)
(* and the LLM gateway they call.                                          *)
(*                                                                         *)
(* Python values are modelled as follows.                                  *)
(*   str            a TLA+ string                                          *)
(*   Optional[x]    <<>> for None, <<x>> for a present value               *)
(*   parsed JSON    a tagged record [t |-> kind, v |-> payload]            *)
(*   dict (result)  a function from the key strings to values              *)
(***************************************************************************)
EXTENDS Integers, Sequences, FiniteSets, TLC

(***************************************************************************)
(* Optional values and Python truthiness.                                  *)
(***************************************************************************)
None == <<>>

Some(x) == <<x>>

\* bool(x) of an Optional[str]: None and "" are falsy
TruthyStr(o) == o # None /\ o[1] # ""

\* bool(x) of an Optional[int]: None and 0 are falsy
TruthyInt(o) == o # None /\ o[1] # 0

\* `o or d` for an Optional[str] o and a str d
OrElse(o, d) == IF TruthyStr(o) THEN o[1] ELSE d

(***************************************************************************)
(* Strings.                                                                *)
(***************************************************************************)
\* s[i:j+1] with 1-based inclusive bounds, clipped to the string like a Python slice
Slice(s, i, j) ==
    LET hi == IF j > Len(s) THEN Len(s) ELSE j
    IN  IF i < 1 \/ i > hi THEN "" ELSE SubSeq(s, i, hi)

\* the character at index i, "" past the end
ch(s, i) == Slice(s, i, i)

\* str.lower() on one ASCII character
LowerChar(c) ==
    CASE c = "A" -> "a" [] c = "B" -> "b" [] c = "C" -> "c" [] c = "D" -> "d"
      [] c = "E" -> "e" [] c = "F" -> "f" [] c = "G" -> "g" [] c = "H" -> "h"
      [] c = "I" -> "i" [] c = "J" -> "j" [] c = "K" -> "k" [] c = "L" -> "l"
      [] c = "M" -> "m" [] c = "N" -> "n" [] c = "O" -> "o" [] c = "P" -> "p"
      [] c = "Q" -> "q" [] c = "R" -> "r" [] c = "S" -> "s" [] c = "T" -> "t"
      [] c = "U" -> "u" [] c = "V" -> "v" [] c = "W" -> "w" [] c = "X" -> "x"
      [] c = "Y" -> "y" [] c = "Z" -> "z" [] OTHER -> c

RECURSIVE Lower(_)
Lower(s) == IF s = "" THEN "" ELSE LowerChar(ch(s, 1)) \o Lower(Slice(s, 2, Len(s)))

\* `sub in s`
Contains(s, sub) ==
    \E i \in 1..(Len(s) - Len(sub) + 1) : Slice(s, i, i + Len(sub) - 1) = sub

StripChars == {" ", "\n", "\t", "\r"}

RECURSIVE LStrip(_)
LStrip(s) == IF s # "" /\ ch(s, 1) \in StripChars THEN LStrip(Slice(s, 2, Len(s))) ELSE s

RECURSIVE RStrip(_)
RStrip(s) == IF s # "" /\ ch(s, Len(s)) \in StripChars THEN RStrip(Slice(s, 1, Len(s) - 1)) ELSE s

\* variant: the text is taken as given, surrounding whitespace kept
Strip_Omitted(s) == s

\* str.strip()
Strip(s) == RStrip(LStrip(s))

RECURSIVE IndexFrom(_, _, _)
\* the least index >= i at which character c occurs in s, 0 if there is none
IndexFrom(s, c, i) ==
    IF i > Len(s) THEN 0 ELSE IF ch(s, i) = c THEN i ELSE IndexFrom(s, c, i + 1)

RECURSIVE SplitLines(_)
\* str.splitlines() for texts whose only line break is "\n"
SplitLines(s) ==
    IF s = "" THEN <<>>
    ELSE LET i == IndexFrom(s, "\n", 1)
         IN  IF i = 0 THEN <<s>>
             ELSE <<Slice(s, 1, i - 1)>> \o SplitLines(Slice(s, i + 1, Len(s)))

\* seq[:n]
Take(seq, n) == SubSeq(seq, 1, IF Len(seq) < n THEN Len(seq) ELSE n)

(***************************************************************************)
(* json.loads on the JSON subset the model texts use: objects, arrays,     *)
(* strings without escapes, numbers without exponent, true/false/null.     *)
(***************************************************************************)
JWhitespace == {" ", "\n", "\t", "\r"}

JDigits == {"0", "1", "2", "3", "4", "5", "6", "7", "8", "9"}

JNull == [t |-> "null", v |-> ""]

JFail == [ok |-> FALSE, val |-> JNull, next |-> 0]

JOk(val, next) == [ok |-> TRUE, val |-> val, next |-> next]

RECURSIVE SkipWs(_, _)
SkipWs(s, i) == IF i <= Len(s) /\ ch(s, i) \in JWhitespace THEN SkipWs(s, i + 1) ELSE i

RECURSIVE DigitsEnd(_, _)
\* index just past the run of digits starting at i
DigitsEnd(s, i) == IF i <= Len(s) /\ ch(s, i) \in JDigits THEN DigitsEnd(s, i + 1) ELSE i

RECURSIVE StringEnd(_, _)
\* index of the closing quote of a string whose body starts at i, 0 if there
\* is none before the end or before a control character or a backslash
StringEnd(s, i) ==
    IF i > Len(s) THEN 0
    ELSE IF ch(s, i) = "\"" THEN i
    ELSE IF ch(s, i) \in {"\n", "\t", "\r", "\\"} THEN 0
    ELSE StringEnd(s, i + 1)

ParseString(s, i) ==
    LET e == StringEnd(s, i + 1)
    IN  IF e = 0 THEN JFail
        ELSE JOk([t |-> "str", v |-> Slice(s, i + 1, e - 1)], e + 1)

ParseNumber(s, i) ==
    LET d0 == IF ch(s, i) = "-" THEN i + 1 ELSE i
        d1 == IF ch(s, d0) = "0" THEN d0 + 1 ELSE DigitsEnd(s, d0)
        f1 == IF d1 <= Len(s) /\ ch(s, d1) = "." /\ DigitsEnd(s, d1 + 1) > d1 + 1
              THEN DigitsEnd(s, d1 + 1) ELSE d1
    IN  IF d1 = d0 THEN JFail
        ELSE JOk([t |-> "num", v |-> Slice(s, i, f1 - 1)], f1)

ParseLiteral(s, i) ==
    IF Slice(s, i, i + 3) = "true" THEN JOk([t |-> "bool", v |-> TRUE], i + 4)
    ELSE IF Slice(s, i, i + 4) = "false" THEN JOk([t |-> "bool", v |-> FALSE], i + 5)
    ELSE IF Slice(s, i, i + 3) = "null" THEN JOk(JNull, i + 4)
    ELSE JFail

RECURSIVE ParseValue(_, _)
RECURSIVE ParseMembers(_, _, _)
RECURSIVE ParseElements(_, _, _)

\* the members of an object, from the key at i; acc is the dict so far
ParseMembers(s, i, acc) ==
    IF i > Len(s) \/ ch(s, i) # "\"" THEN JFail
    ELSE LET k == ParseString(s, i)
             c == IF k.ok THEN SkipWs(s, k.next) ELSE 0
         IN  IF ~k.ok \/ c > Len(s) \/ ch(s, c) # ":" THEN JFail
             ELSE LET val == ParseValue(s, SkipWs(s, c + 1))
                      e == IF val.ok THEN SkipWs(s, val.next) ELSE 0
                      d == IF val.ok THEN (k.val.v :> val.val) @@ acc ELSE acc
                  IN  IF ~val.ok \/ e > Len(s) THEN JFail
                      ELSE IF ch(s, e) = "}" THEN JOk([t |-> "dict", v |-> d], e + 1)
                      ELSE IF ch(s, e) = "," THEN ParseMembers(s, SkipWs(s, e + 1), d)
                      ELSE JFail

\* the elements of an array, from the value at i; acc is the list so far
ParseElements(s, i, acc) ==
    LET val == ParseValue(s, i)
        e == IF val.ok THEN SkipWs(s, val.next) ELSE 0
        l == IF val.ok THEN Append(acc, val.val) ELSE acc
    IN  IF ~val.ok \/ e > Len(s) THEN JFail
        ELSE IF ch(s, e) = "]" THEN JOk([t |-> "list", v |-> l], e + 1)
        ELSE IF ch(s, e) = "," THEN ParseElements(s, SkipWs(s, e + 1), l)
        ELSE JFail

ParseValue(s, i) ==
    IF i > Len(s) THEN JFail
    ELSE LET c == ch(s, i)
             n == SkipWs(s, i + 1)
         IN  IF c = "{" THEN
                 IF n <= Len(s) /\ ch(s, n) = "}"
                 THEN JOk([t |-> "dict", v |-> <<>>], n + 1)
                 ELSE ParseMembers(s, n, <<>>)
             ELSE IF c = "[" THEN
                 IF n <= Len(s) /\ ch(s, n) = "]"
                 THEN JOk([t |-> "list", v |-> <<>>], n + 1)
                 ELSE ParseElements(s, n, <<>>)
             ELSE IF c = "\"" THEN ParseString(s, i)
             ELSE IF c = "-" \/ c \in JDigits THEN ParseNumber(s, i)
             ELSE ParseLiteral(s, i)

\* json.loads(s): [ok |-> FALSE] stands for the JSONDecodeError
JsonLoads(s) ==
    LET r == ParseValue(s, SkipWs(s, 1))
    IN  IF r.ok /\ SkipWs(s, r.next) = Len(s) + 1 THEN [ok |-> TRUE, val |-> r.val]
        ELSE [ok |-> FALSE, val |-> JNull]

(***************************************************************************)
(* Python dict / list / scalar values held in results.                     *)
(***************************************************************************)
JStr(x) == [t |-> "str", v |-> x]

JNum(lit) == [t |-> "num", v |-> lit]

JList(q) == [t |-> "list", v |-> q]

JDict(f) == [t |-> "dict", v |-> f]

\* the keys of a result value: a dict's keys, none for anything else
Keys(val) == IF val.t = "dict" THEN DOMAIN val.v ELSE {}

(***************************************************************************)
(* Bounds and input sets.                                                  *)
(***************************************************************************)
\* resume_version_id ranges over None and 0..MaxVersionId
MaxVersionId == 3

\* the rows of resume_versions: id -> raw_text (None for a NULL column)
StoreVersions == (1 :> Some("Built APIs\n- Led a team of 5")) @@ (2 :> Some(""))

\* the rows of resume_versions with their parent_version (NULL for an upload)
StoredVersions ==
    [id \in DOMAIN StoreVersions |-> [raw_text |-> StoreVersions[id], parent_version |-> None]]

\* the number of rows of resumes: one per upload
StoredResumes == 2

\* router.DEFAULT_AGENTS as the module defines it
DEFAULT_AGENTS == <<"job_match", "section_enhance", "company_research">>

Messages ==
    { "Polish my French CV",
      "translate to Italian",
      "Translate my CV to Urdu",
      "translate: mexican spanish",
      "TRANSLATE german or french",
      "translate korean for japan" }

\* the optional arguments of handle_message: role, company, job_description
Contexts ==
    { [role |-> None, company |-> None, job_description |-> None],
      [role |-> None, company |-> Some(""), job_description |-> Some("Backend Engineer, AWS")],
      [role |-> Some("Data Scientist"), company |-> Some("  "), job_description |-> None],
      [role |-> Some("Data Scientist"), company |-> Some("Google"),
       job_description |-> Some("Backend Engineer, AWS")],
      [role |-> None, company |-> Some("Google"), job_description |-> None] }

TavilyKeys == {None, Some("tvly-key")}

\* texts the chat-completion model may answer a capability prompt with
AgentTexts ==
    { "{\"score\": 0.72, \"gaps\": [\"system design\"], \"suggestions\": []}",
      "Here you go: {\"edits\": []}",
      "[1, 2]" }

\* texts the model may answer the synthesis or the translation prompt with:
\* two that keep the line break and the bullet of the stored resume, one
\* that runs the lines together
ReplyTexts ==
    { "Your score is 0.72.\n- Add metrics",
      "Tu CV\n- Lidere un equipo",
      "Tu CV: Lidere un equipo" }

(***************************************************************************)
(* GroqClient.generate as the agents and the orchestrator use it           *)
(* (expect_json = False): the upstream call fails and RuntimeError is      *)
(* raised, or the content of the first choice is returned as is.  The      *)
(* client has a key here: NLRouterAgent cannot be constructed without      *)
(* GROQ_API_KEY, so an orchestrator never runs on the keyless demo client. *)
(***************************************************************************)
GenerateOutcomes(texts) ==
    {[ok |-> FALSE, content |-> ""]} \cup {[ok |-> TRUE, content |-> x] : x \in texts}

(***************************************************************************)
(* JobMatchAgent.run and SectionEnhanceAgent.run, after the LLM call.      *)
(***************************************************************************)
\* variant: the raw model text is dropped from the fallback
JobMatchFallback_NoRawText(resp) ==
    JDict(("score" :> JNum("0.0")) @@ ("gaps" :> JList(<<>>))
          @@ ("suggestions" :> JList(<<>>)))

JobMatchFallback(resp) ==
    JDict(("score" :> JNum("0.0")) @@ ("gaps" :> JList(<<>>))
          @@ ("suggestions" :> JList(<<JStr(resp)>>)))

JobMatchRun(resp) ==
    LET parsed == JsonLoads(resp)
    IN  IF parsed.ok THEN parsed.val ELSE JobMatchFallback(resp)

SectionEnhanceFallback(resp) == JDict("edits_text" :> JStr(resp))

SectionEnhanceRun(resp) ==
    LET parsed == JsonLoads(resp)
    IN  IF parsed.ok THEN parsed.val ELSE SectionEnhanceFallback(resp)

(***************************************************************************)
(* CompanyResearchAgent.                                                   *)
(***************************************************************************)
SnippetBudget == 6000

RECURSIVE JoinWith(_, _)
\* sep.join(q)
JoinWith(q, sep) ==
    IF q = <<>> THEN ""
    ELSE IF Len(q) = 1 THEN q[1]
    ELSE q[1] \o sep \o JoinWith(Tail(q), sep)

\* `k in d` for a dict d (the empty dict is <<>>)
Has(d, k) == d # <<>> /\ k \in DOMAIN d

\* d.get(k, default) for a dict d
GetOr(d, k, default) == IF Has(d, k) THEN d[k] ELSE default

\* bool(x) of a parsed JSON value
Truthy(val) ==
    CASE val.t = "null" -> FALSE
      [] val.t = "bool" -> val.v
      [] val.t = "num" -> \E i \in 1..Len(val.v) : ch(val.v, i) \notin {"0", ".", "-"}
      [] val.t = "str" -> val.v # ""
      [] OTHER -> val.v # <<>>

\* f"{x}" of a parsed JSON scalar (the search results of the model carry
\* strings and nulls only; lists and dicts are not formatted)
Format(val) ==
    CASE val.t = "str" -> val.v
      [] val.t = "null" -> "None"
      [] val.t = "bool" -> IF val.v THEN "True" ELSE "False"
      [] val.t = "num" -> val.v

RECURSIVE Snippets(_)
\* the snippets of the result items (all dicts), items without content dropped
Snippets(items) ==
    IF items = <<>> THEN <<>>
    ELSE LET item == items[1].v
             title == GetOr(item, "title", JStr(""))
             content == GetOr(item, "content", JStr(""))
             url == GetOr(item, "url", JStr(""))
         IN  IF ~Truthy(content) THEN Snippets(Tail(items))
             ELSE <<Format(title) \o "\n" \o Format(content) \o "\nSource: " \o Format(url)>>
                  \o Snippets(Tail(items))

\* one answer of the search endpoint: requests.post raised `fault`, or it
\* returned a response with that status whose .json() is `json`
HttpFault(fault) == [fault |-> fault, status |-> 0, json |-> [ok |-> FALSE, val |-> JNull]]

HttpResponse(status, json) == [fault |-> "", status |-> status, json |-> json]

\* resp.json() of a body that is JSON / that is not
JsonBody(val) == [ok |-> TRUE, val |-> val]

NotJson == [ok |-> FALSE, val |-> JNull]

SearchItem(title, content, url) ==
    JDict(("title" :> title) @@ ("content" :> content) @@ ("url" :> url))

SearchResults(items) == JsonBody(JDict("results" :> JList(items)))

\* what the search endpoint may do during handle_message
TavilyOutcomes ==
    { HttpFault("ConnectionError"),
      HttpResponse(200, SearchResults(<<>>)),
      HttpResponse(200, SearchResults(
          << SearchItem(JStr("Google"), JStr(""), JStr("https://g.example")),
             SearchItem(JStr("About"), JStr("Search and cloud"), JStr("https://a.example")) >>)) }

\* variant: raise_for_status is not called, the body of an error response is read
SearchTavily_IgnoresStatus(key, http) ==
    IF ~TruthyStr(key) THEN ""
    ELSE IF http.fault # "" THEN ""
    ELSE IF ~http.json.ok THEN ""
    ELSE IF http.json.val.t # "dict" THEN ""
    ELSE LET results == GetOr(http.json.val.v, "results", JList(<<>>))
         IN  IF results.t # "list" THEN ""
             ELSE IF \E i \in DOMAIN results.v : results.v[i].t # "dict" THEN ""
             ELSE Slice(JoinWith(Snippets(results.v), "\n\n"), 1, SnippetBudget)

\* _search_tavily, given the outcome of the HTTP call: any exception raised
\* inside the try block is caught and "" is returned
SearchTavily(key, http) ==
    IF ~TruthyStr(key) THEN ""
    ELSE IF http.fault # "" THEN ""
    ELSE IF http.status >= 400 THEN ""
    ELSE IF ~http.json.ok THEN ""
    ELSE IF http.json.val.t # "dict" THEN ""
    ELSE LET results == GetOr(http.json.val.v, "results", JList(<<>>))
         IN  IF results.t # "list" THEN ""
             ELSE IF \E i \in DOMAIN results.v : results.v[i].t # "dict" THEN ""
             ELSE Slice(JoinWith(Snippets(results.v), "\n\n"), 1, SnippetBudget)

CompanyNoName ==
    JDict(("summary" :> JStr("")) @@ ("culture" :> JList(<<>>)) @@ ("keywords" :> JList(<<>>))
          @@ ("role_alignment" :> JStr("")) @@ ("raw_sources" :> JStr(""))
          @@ ("error" :> JStr("No company name provided.")))

CompanyFallback(raw_answer) ==
    ("summary" :> JStr("")) @@ ("culture" :> JList(<<>>)) @@ ("keywords" :> JList(<<>>))
    @@ ("role_alignment" :> JStr("")) @@ ("raw_text" :> JStr(raw_answer))

\* run, steps 3 and after: parse the answer and attach the sources
CompanyResearchResult(raw_answer, web_snippets) ==
    LET parsed == JsonLoads(raw_answer)
        result == IF parsed.ok /\ parsed.val.t = "dict" THEN parsed.val.v
                  ELSE CompanyFallback(raw_answer)
    IN  IF web_snippets # "" /\ "raw_sources" \notin DOMAIN result
        THEN JDict(result @@ ("raw_sources" :> JStr(web_snippets)))
        ELSE JDict(result)

(***************************************************************************)
(* NLRoute and NLRouterAgent.route.                                        *)
(***************************************************************************)
NLRouteFlags == {"run_job_match", "run_company_research", "run_section_enhance", "translate"}

\* variant: intent is optional and defaults to "unknown"
NLRouteValidate_DefaultIntent(val) ==
    LET d == val.v
        conforms ==
            /\ val.t = "dict"
            /\ Has(d, "intent") => d["intent"].t = "str"
            /\ \A k \in NLRouteFlags : Has(d, k) => d[k].t = "bool"
            /\ Has(d, "target_language") => d["target_language"].t \in {"str", "null"}
        flag(k) == IF Has(d, k) THEN d[k].v ELSE FALSE
    IN  IF ~conforms THEN [ok |-> FALSE, route |-> None]
        ELSE [ok |-> TRUE, route |->
                [intent |-> IF Has(d, "intent") THEN d["intent"].v ELSE "unknown",
                 run_job_match |-> flag("run_job_match"),
                 run_company_research |-> flag("run_company_research"),
                 run_section_enhance |-> flag("run_section_enhance"),
                 translate |-> flag("translate"),
                 target_language |->
                     IF Has(d, "target_language") /\ d["target_language"].t = "str"
                     THEN Some(d["target_language"].v) ELSE None]]

\* NLRoute(**fields): intent is required, the flags default to False and
\* target_language to None; a field of the wrong type is a validation error
\* (the classifier texts carry JSON booleans and strings only, so pydantic's
\* coercion of other types into bool or str is not exercised)
NLRouteValidate(val) ==
    LET d == val.v
        conforms ==
            /\ val.t = "dict"
            /\ Has(d, "intent") /\ d["intent"].t = "str"
            /\ \A k \in NLRouteFlags : Has(d, k) => d[k].t = "bool"
            /\ Has(d, "target_language") => d["target_language"].t \in {"str", "null"}
        flag(k) == IF Has(d, k) THEN d[k].v ELSE FALSE
    IN  IF ~conforms THEN [ok |-> FALSE, route |-> None]
        ELSE [ok |-> TRUE, route |->
                [intent |-> d["intent"].v,
                 run_job_match |-> flag("run_job_match"),
                 run_company_research |-> flag("run_company_research"),
                 run_section_enhance |-> flag("run_section_enhance"),
                 translate |-> flag("translate"),
                 target_language |->
                     IF Has(d, "target_language") /\ d["target_language"].t = "str"
                     THEN Some(d["target_language"].v) ELSE None]]

\* the output parser of the chain: JSON text -> NLRoute, or OutputParserException
ParseNLRoute(text) ==
    LET parsed == JsonLoads(text)
    IN  IF parsed.ok THEN NLRouteValidate(parsed.val) ELSE [ok |-> FALSE, route |-> None]

BoolLit(b) == IF b THEN "true" ELSE "false"

\* the JSON text of a classifier answer with every field given
RouteJson(jm, cr, se, tr, tl) ==
    "{\"intent\": \"goal\", \"run_job_match\": " \o BoolLit(jm)
    \o ", \"run_company_research\": " \o BoolLit(cr)
    \o ", \"run_section_enhance\": " \o BoolLit(se)
    \o ", \"translate\": " \o BoolLit(tr)
    \o ", \"target_language\": "
    \o (IF tl = None THEN "null" ELSE "\"" \o tl[1] \o "\"") \o "}"

TargetLanguages == {None, Some("French (France)")}

\* texts the classifier model may answer with
ClassifierTexts ==
    { RouteJson(jm, cr, se, tr, tl) :
        jm \in BOOLEAN, cr \in BOOLEAN, se \in BOOLEAN, tr \in BOOLEAN, tl \in TargetLanguages }
    \cup { "{\"intent\": \"chat\"}",
           "{\"intent\": \"translate\", \"translate\": true, \"target_language\": \"\"}",
           "{\"translate\": true, \"target_language\": \"Urdu (Pakistan)\"}",
           "I think you want a translation.",
           "[]" }

\* chain.invoke: the call fails, or the model's text reaches the parser
ClassifierOutcomes ==
    {[ok |-> FALSE, content |-> ""]} \cup {[ok |-> TRUE, content |-> x] : x \in ClassifierTexts}

(***************************************************************************)
(* NLChatOrchestrator._detect_manual_translation_route.                    *)
(***************************************************************************)
\* lang_map in insertion order
LangMap ==
    << <<"mexican spanish", "Mexican Spanish">>, <<"spanish", "Spanish">>,
       <<"french", "French">>, <<"german", "German">>, <<"hindi", "Hindi">>,
       <<"urdu", "Urdu">>, <<"japanese", "Japanese">>, <<"japan", "Japanese">>,
       <<"korean", "Korean">>, <<"korea", "Korean">> >>

\* least index at which sub occurs in s, 0 if it does not occur
Find(s, sub) ==
    IF ~Contains(s, sub) THEN 0
    ELSE CHOOSE i \in 1..(Len(s) - Len(sub) + 1) :
             /\ Slice(s, i, i + Len(sub) - 1) = sub
             /\ \A j \in 1..(i - 1) : Slice(s, j, j + Len(sub) - 1) # sub

\* variant: the key that occurs leftmost in msg wins (the longer key on a tie)
FirstLanguage_ByPosition(msg) ==
    LET hits == {i \in 1..Len(LangMap) : Contains(msg, LangMap[i][1])}
    IN  IF hits = {} THEN None
        ELSE Some(LangMap[CHOOSE i \in hits : \A j \in hits :
                              \/ Find(msg, LangMap[i][1]) < Find(msg, LangMap[j][1])
                              \/ /\ Find(msg, LangMap[i][1]) = Find(msg, LangMap[j][1])
                                 /\ Len(LangMap[i][1]) >= Len(LangMap[j][1])][2])

\* the value of the first key of lang_map found in msg, None if none is
FirstLanguage(msg) ==
    LET hits == {i \in 1..Len(LangMap) : Contains(msg, LangMap[i][1])}
    IN  IF hits = {} THEN None
        ELSE Some(LangMap[CHOOSE i \in hits : \A j \in hits : i <= j][2])

\* variant: the scan is done on the message as typed, without lower-casing
DetectManualTranslationRoute_CaseSensitive(message) ==
    LET target == FirstLanguage(message)
    IN  IF ~Contains(message, "translate") THEN None
        ELSE IF ~TruthyStr(target) THEN None
        ELSE Some([intent |-> "translate",
                   run_job_match |-> FALSE,
                   run_company_research |-> FALSE,
                   run_section_enhance |-> FALSE,
                   translate |-> TRUE,
                   target_language |-> target])

DetectManualTranslationRoute(message) ==
    LET msg == Lower(message)
        target == FirstLanguage(msg)
    IN  IF ~Contains(msg, "translate") THEN None
        ELSE IF ~TruthyStr(target) THEN None
        ELSE Some([intent |-> "translate",
                   run_job_match |-> FALSE,
                   run_company_research |-> FALSE,
                   run_section_enhance |-> FALSE,
                   translate |-> TRUE,
                   target_language |-> target])

(***************************************************************************)
(* State of one handle_message call.                                       *)
(***************************************************************************)
VARIABLES
    message,              \* the arguments of handle_message
    resume_version_id,
    role,
    company,
    job_description,
    tavily_key,           \* CompanyResearchAgent.tavily_key
    pc,                   \* position in handle_message, "done" or "failed"
    resume_text,
    route,                \* None until routing is resolved, then Some(NLRoute)
    classifier_called,    \* whether NLRouterAgent.route was called
    classifier_text,      \* None, or Some(the text the classifier model answered)
    agents_called,
    structured,
    invoked,              \* the capability agents whose run was entered, in order
    llm_calls,            \* the GroqClient.generate calls, in order, with their outcome
    web_calls,            \* number of requests sent to the search API
    args,                 \* the arguments each capability agent was run with
    synth_reply,          \* None, or Some(the text the synthesis call returned)
    translation_reply,    \* None, or Some(the text the translation call returned)
    content_to_translate,
    result,               \* None, or Some(the dict handle_message returned)
    error,                \* the exception handle_message raised, "" if none
    agent,                \* the capability agent called directly, "" if none is
    agent_args,           \* the arguments its run method is called with
    model_answers,        \* what the temperature-zero model answered, per prompt
    runs,                 \* the calls of run made so far, in order
    api_key,              \* GroqClient.api_key
    demo_mode,            \* GroqClient.demo_mode
    generate_args,        \* the arguments generate is called with
    calls,                \* the calls of generate made so far, in order
    body,                 \* the JSON body of the /chat_nl request
    endpoint_pc,          \* position in chat_nl
    logged,               \* the messages written by log_message, in order
    response,             \* None, or Some(the HTTP response of the endpoint)
    default_agents,       \* the list object router.DEFAULT_AGENTS
    chats,                \* the number of /chat requests handled
    chat,                 \* the last /chat request and what was done for it
    versions,             \* the rows of resume_versions, by id
    changes,              \* the number of /apply_changes requests received
    applied,              \* the /apply_changes requests, in order of arrival
    uploads,              \* the /upload_resume requests, in order of arrival
    resumes,              \* the number of rows of resumes
    overlapped            \* whether two requests have used the Store at one time

\* the state of a direct call of a capability agent
agent_vars == <<agent, agent_args, model_answers, runs>>

\* the state of a direct call of the LLM gateway
gateway_vars == <<api_key, demo_mode, generate_args, calls>>

\* the state of the /chat_nl endpoint around handle_message
endpoint_vars == <<body, endpoint_pc, logged, response>>

\* the state of the /chat and /apply_changes endpoints
service_vars ==
    <<default_agents, chats, chat, versions, changes, applied, uploads, resumes, overlapped>>

\* the state outside handle_message
elsewhere == <<agent_vars, gateway_vars, endpoint_vars, service_vars>>

\* the state of handle_message, the search credential aside
orchestration ==
    << message, resume_version_id, role, company, job_description, pc,
       resume_text, route, classifier_called, classifier_text, agents_called, structured,
       invoked, llm_calls, web_calls, args, synth_reply, translation_reply,
       content_to_translate, result, error >>

vars == <<orchestration, tavily_key, elsewhere>>

\* no capability agent is called directly
AgentIdle ==
    /\ agent = ""
    /\ agent_args = <<>>
    /\ model_answers = <<>>
    /\ runs = <<>>

\* the gateway is not called directly
GatewayIdle ==
    /\ api_key = ""
    /\ demo_mode = FALSE
    /\ generate_args = <<>>
    /\ calls = <<>>

\* no request is at the endpoint
EndpointIdle ==
    /\ body = <<>>
    /\ endpoint_pc = "idle"
    /\ logged = <<>>
    /\ response = None

\* the module as imported and the store as found: no /chat, /apply_changes
\* or /upload_resume request was made
ServiceIdle ==
    /\ default_agents = DEFAULT_AGENTS
    /\ chats = 0
    /\ chat = <<>>
    /\ versions = StoredVersions
    /\ changes = 0
    /\ applied = <<>>
    /\ uploads = <<>>
    /\ resumes = StoredResumes
    /\ overlapped = FALSE

ElsewhereIdle == AgentIdle /\ GatewayIdle /\ EndpointIdle /\ ServiceIdle

inputs == <<message, resume_version_id, role, company, job_description, tavily_key>>

VersionIds == {None} \cup {Some(i) : i \in 0..MaxVersionId}

Init ==
    /\ message \in Messages
    /\ resume_version_id \in VersionIds
    /\ \E ctx \in Contexts :
         /\ role = ctx.role
         /\ company = ctx.company
         /\ job_description = ctx.job_description
    /\ tavily_key \in TavilyKeys
    /\ pc = "load"
    /\ resume_text = ""
    /\ route = None
    /\ classifier_called = FALSE
    /\ classifier_text = None
    /\ agents_called = <<>>
    /\ structured = <<>>
    /\ invoked = <<>>
    /\ llm_calls = <<>>
    /\ web_calls = 0
    /\ args = <<>>
    /\ synth_reply = None
    /\ translation_reply = None
    /\ content_to_translate = None
    /\ result = None
    /\ error = ""
    /\ ElsewhereIdle

\* Store.get_version: the row with that id, None if there is none
GetVersion(id) == IF id \in DOMAIN StoreVersions THEN Some(StoreVersions[id]) ELSE None

\* handle_message, "Load resume text"
ResumeTextOf(rvid) ==
    IF ~TruthyInt(rvid) THEN ""
    ELSE LET v == GetVersion(rvid[1])
         IN  IF v = None THEN "" ELSE OrElse(v[1], "")

\* variant: any translation request counts as pure
PureTranslation_TranslateOnly(r) == r.translate

PureTranslation(r) ==
    r.translate /\ ~r.run_job_match /\ ~r.run_company_research /\ ~r.run_section_enhance

\* `if route.run_company_research and company:`
RunsCompanyResearch(r, comp) == r.run_company_research /\ TruthyStr(comp)

\* variant: the flag alone decides, the resume text is not looked at
RunsJobMatch_FlagOnly(r, text) == r.run_job_match

\* `if route.run_job_match and resume_text:`
RunsJobMatch(r, text) == r.run_job_match /\ text # ""

\* `if route.run_section_enhance and resume_text:`
RunsSectionEnhance(r, text) == r.run_section_enhance /\ text # ""

\* the record of one GroqClient.generate call
LlmCall(purpose, out) == [purpose |-> purpose, ok |-> out.ok, content |-> out.content]

\* variant: the failure is caught and what was built so far is returned
Raise_ReturnsPartial(exc) ==
    /\ pc' = "failed"
    /\ error' = exc
    /\ result' = Some([agents_called |-> agents_called, structured |-> structured])

\* an exception leaves handle_message: nothing is returned
Raise(exc) ==
    /\ pc' = "failed"
    /\ error' = exc
    /\ result' = None

LoadResume ==
    /\ pc = "load"
    /\ UNCHANGED elsewhere
    /\ resume_text' = ResumeTextOf(resume_version_id)
    /\ pc' = "route"
    /\ UNCHANGED << inputs, route, classifier_called, classifier_text, agents_called,
                    structured, invoked, llm_calls, web_calls, args, synth_reply,
                    translation_reply, content_to_translate, result, error >>

\* the manual override fires: the classifier is not consulted
ManualOverride ==
    /\ pc = "route"
    /\ UNCHANGED elsewhere
    /\ DetectManualTranslationRoute(message) # None
    /\ route' = DetectManualTranslationRoute(message)
    /\ pc' = "company"
    /\ UNCHANGED << inputs, resume_text, classifier_called, classifier_text, agents_called,
                    structured, invoked, llm_calls, web_calls, args, synth_reply,
                    translation_reply, content_to_translate, result, error >>

\* no override: route = self.router.route(message)
ClassifierRoute ==
    /\ pc = "route"
    /\ UNCHANGED elsewhere
    /\ DetectManualTranslationRoute(message) = None
    /\ classifier_called' = TRUE
    /\ \E out \in ClassifierOutcomes :
         LET parsed == ParseNLRoute(out.content)
         IN  IF ~out.ok
             THEN Raise("APIConnectionError") /\ UNCHANGED <<route, classifier_text>>
             ELSE /\ classifier_text' = Some(out.content)
                  /\ IF ~parsed.ok
                     THEN Raise("OutputParserException") /\ UNCHANGED route
                     ELSE /\ route' = Some(parsed.route)
                          /\ pc' = "company"
                          /\ UNCHANGED <<result, error>>
    /\ UNCHANGED << inputs, resume_text, agents_called, structured, invoked, llm_calls,
                    web_calls, args, synth_reply, translation_reply, content_to_translate >>

\* "Company research": runs when the flag is set and a company was given
CompanyResearch ==
    /\ pc = "company"
    /\ UNCHANGED elsewhere
    /\ IF RunsCompanyResearch(route[1], company)
       THEN /\ invoked' = Append(invoked, "company_research")
            /\ args' = ("company_research" :>
                           [company |-> company[1], extra_context |-> message]) @@ args
            /\ IF Strip(company[1]) = ""
               THEN /\ structured' = ("company_research" :> CompanyNoName) @@ structured
                    /\ agents_called' = Append(agents_called, "company_research")
                    /\ pc' = "job"
                    /\ UNCHANGED <<llm_calls, web_calls, result, error>>
               ELSE \E http \in TavilyOutcomes, out \in GenerateOutcomes(AgentTexts) :
                      LET web_snippets == SearchTavily(tavily_key, http)
                      IN  /\ web_calls' = IF TruthyStr(tavily_key) THEN web_calls + 1
                                          ELSE web_calls
                          /\ llm_calls' = Append(llm_calls, LlmCall("company_research", out))
                          /\ IF ~out.ok
                             THEN Raise("RuntimeError") /\ UNCHANGED <<structured, agents_called>>
                             ELSE /\ structured' =
                                       ("company_research" :>
                                           CompanyResearchResult(out.content, web_snippets))
                                       @@ structured
                                  /\ agents_called' = Append(agents_called, "company_research")
                                  /\ pc' = "job"
                                  /\ UNCHANGED <<result, error>>
       ELSE /\ pc' = "job"
            /\ UNCHANGED << invoked, args, structured, agents_called, llm_calls, web_calls,
                            result, error >>
    /\ UNCHANGED <<inputs, resume_text, route, classifier_called, classifier_text,
                   synth_reply, translation_reply, content_to_translate>>

\* "Job match": runs when the flag is set and there is resume text
JobMatch ==
    /\ pc = "job"
    /\ UNCHANGED elsewhere
    /\ IF RunsJobMatch(route[1], resume_text)
       THEN /\ invoked' = Append(invoked, "job_match")
            /\ args' = ("job_match" :>
                           [resume_text |-> resume_text,
                            job_description |-> OrElse(job_description, message)]) @@ args
            /\ \E out \in GenerateOutcomes(AgentTexts) :
               /\ llm_calls' = Append(llm_calls, LlmCall("job_match", out))
               /\ IF ~out.ok
                 THEN Raise("RuntimeError") /\ UNCHANGED <<structured, agents_called>>
                 ELSE /\ structured' = ("job_match" :> JobMatchRun(out.content)) @@ structured
                      /\ agents_called' = Append(agents_called, "job_match")
                      /\ pc' = "section"
                      /\ UNCHANGED <<result, error>>
       ELSE /\ pc' = "section"
            /\ UNCHANGED <<invoked, args, llm_calls, structured, agents_called, result, error>>
    /\ UNCHANGED <<inputs, resume_text, route, classifier_called, classifier_text,
                   web_calls, synth_reply, translation_reply, content_to_translate>>

\* "Section enhancement": runs when the flag is set and there is resume text
SectionEnhance ==
    /\ pc = "section"
    /\ UNCHANGED elsewhere
    /\ IF RunsSectionEnhance(route[1], resume_text)
       THEN /\ invoked' = Append(invoked, "section_enhance")
            /\ args' = ("section_enhance" :>
                           [bullets |-> Take(SplitLines(resume_text), 5),
                            role |-> OrElse(role, "Software Engineer")]) @@ args
            /\ \E out \in GenerateOutcomes(AgentTexts) :
               /\ llm_calls' = Append(llm_calls, LlmCall("section_enhance", out))
               /\ IF ~out.ok
                 THEN Raise("RuntimeError") /\ UNCHANGED <<structured, agents_called>>
                 ELSE /\ structured' =
                           ("section_enhance" :> SectionEnhanceRun(out.content)) @@ structured
                      /\ agents_called' = Append(agents_called, "section_enhance")
                      /\ pc' = "synth"
                      /\ UNCHANGED <<result, error>>
       ELSE /\ pc' = "synth"
            /\ UNCHANGED <<invoked, args, llm_calls, structured, agents_called, result, error>>
    /\ UNCHANGED <<inputs, resume_text, route, classifier_called, classifier_text,
                   web_calls, synth_reply, translation_reply, content_to_translate>>

\* reply_text = self.llm.generate(summary_prompt)
\* variant: a pure translation request goes to the translation step without
\* a summary call
Synthesize_SkippedForPureTranslation ==
    /\ pc = "synth"
    /\ UNCHANGED elsewhere
    /\ IF PureTranslation(route[1])
       THEN /\ synth_reply' = Some("")
            /\ pc' = "translate"
            /\ UNCHANGED <<llm_calls, result, error>>
       ELSE \E out \in GenerateOutcomes(ReplyTexts) :
              /\ llm_calls' = Append(llm_calls, LlmCall("synthesis", out))
              /\ IF ~out.ok THEN Raise("RuntimeError") /\ UNCHANGED synth_reply
                 ELSE /\ synth_reply' = Some(out.content)
                      /\ pc' = "translate"
                      /\ UNCHANGED <<result, error>>
    /\ UNCHANGED <<inputs, resume_text, route, classifier_called, classifier_text,
                   agents_called, structured, invoked, web_calls, args, translation_reply,
                   content_to_translate>>

Synthesize ==
    /\ pc = "synth"
    /\ UNCHANGED elsewhere
    /\ \E out \in GenerateOutcomes(ReplyTexts) :
         /\ llm_calls' = Append(llm_calls, LlmCall("synthesis", out))
         /\ IF ~out.ok THEN Raise("RuntimeError") /\ UNCHANGED synth_reply
            ELSE /\ synth_reply' = Some(out.content)
                 /\ pc' = "translate"
                 /\ UNCHANGED <<result, error>>
    /\ UNCHANGED <<inputs, resume_text, route, classifier_called, classifier_text,
                   agents_called, structured, invoked, web_calls, args, translation_reply,
                   content_to_translate>>

\* variant: no reply text is returned when no agent was called
OrchestrationResult_EmptyWhenIdle(reply, called, r) ==
    [reply |-> IF called = <<>> THEN "" ELSE reply, agents_called |-> called,
     structured |-> structured, routing_decision |-> r]

OrchestrationResult(reply, called, r) ==
    [reply |-> reply, agents_called |-> called, structured |-> structured,
     routing_decision |-> r]

\* "Translation step" and the return statement
TranslateAndReturn ==
    /\ pc = "translate"
    /\ UNCHANGED elsewhere
    /\ LET r == route[1]
       IN  IF r.translate /\ TruthyStr(r.target_language)
           THEN /\ content_to_translate' =
                       Some(IF PureTranslation(r) /\ resume_text # "" THEN resume_text
                            ELSE synth_reply[1])
                /\ \E out \in GenerateOutcomes(ReplyTexts) :
                     /\ llm_calls' = Append(llm_calls, LlmCall("translation", out))
                     /\ IF ~out.ok
                        THEN Raise("RuntimeError")
                             /\ UNCHANGED <<agents_called, translation_reply>>
                        ELSE LET called == Append(agents_called,
                                                  "translation:" \o r.target_language[1])
                             IN  /\ translation_reply' = Some(out.content)
                                 /\ agents_called' = called
                                 /\ result' = Some(OrchestrationResult(out.content, called, r))
                                 /\ pc' = "done"
                                 /\ UNCHANGED error
           ELSE /\ result' = Some(OrchestrationResult(synth_reply[1], agents_called, r))
                /\ pc' = "done"
                /\ UNCHANGED <<content_to_translate, llm_calls, agents_called,
                               translation_reply, error>>
    /\ UNCHANGED <<inputs, resume_text, route, classifier_called, classifier_text,
                   structured, invoked, web_calls, args, synth_reply>>

Next ==
    \/ LoadResume
    \/ ManualOverride
    \/ ClassifierRoute
    \/ CompanyResearch
    \/ JobMatch
    \/ SectionEnhance
    \/ Synthesize
    \/ TranslateAndReturn

Spec == Init /\ [][Next]_vars

(***************************************************************************)
(* A capability agent called directly, several times with the same         *)
(* arguments, against a temperature-zero model: the model answers a prompt *)
(* it has seen before with the text it answered then.  The search endpoint *)
(* and the transport to the model are free to behave differently from one  *)
(* call to the next.                                                       *)
(***************************************************************************)
\* how many times run is called
MaxRuns == 2

\* handle_message is not running
OrchestrationIdle ==
    /\ message = ""
    /\ resume_version_id = None
    /\ role = None
    /\ company = None
    /\ job_description = None
    /\ pc = "idle"
    /\ resume_text = ""
    /\ route = None
    /\ classifier_called = FALSE
    /\ classifier_text = None
    /\ agents_called = <<>>
    /\ structured = <<>>
    /\ invoked = <<>>
    /\ llm_calls = <<>>
    /\ web_calls = 0
    /\ args = <<>>
    /\ synth_reply = None
    /\ translation_reply = None
    /\ content_to_translate = None
    /\ result = None
    /\ error = ""

RECURSIVE Dbl(_, _)
\* s repeated 2^n times
Dbl(s, n) == IF n = 0 THEN s ELSE Dbl(s \o s, n - 1)

\* a page text of 4096 characters
LongContent == Dbl("0123456789abcdef", 8)

\* what the search endpoint may do when the agent is called directly
SearchOutcomes ==
    TavilyOutcomes \cup
    { HttpFault("Timeout"),
      HttpResponse(500, SearchResults(
          <<SearchItem(JStr("About"), JStr("Search and cloud"), JStr("https://a.example"))>>)),
      HttpResponse(301, SearchResults(
          <<SearchItem(JStr("Moved"), JStr("Search and cloud"), JStr("https://m.example"))>>)),
      HttpResponse(200, NotJson),
      HttpResponse(200, JsonBody(JList(<<>>))),
      HttpResponse(200, JsonBody(JDict(<<>>))),
      HttpResponse(200, JsonBody(JDict("results" :> JNull))),
      HttpResponse(200, SearchResults(
          <<SearchItem(JStr("About"), JStr("Search and cloud"), JStr("https://a.example")),
            JNum("1")>>)),
      HttpResponse(200, SearchResults(
          <<SearchItem(JNull, JNull, JStr("https://n.example")),
            JDict("content" :> JStr("Ads and maps"))>>)),
      HttpResponse(200, SearchResults(
          <<SearchItem(JStr("Blog"), JStr(LongContent), JStr("https://b.example")),
            SearchItem(JStr("Jobs"), JStr(LongContent), JStr("https://j.example"))>>)) }

\* texts the model may answer the company-research prompt with
CompanyTexts ==
    AgentTexts \cup
    { "{\"summary\": \"Search company\", \"culture\": [], \"keywords\": [\"cloud\"], \"role_alignment\": \"Good fit\"}",
      "{\"summary\": \"Search company\", \"raw_sources\": \"from memory\"}" }

\* the calls of the agents: which agent, with which arguments
AgentCalls ==
    { [agent |-> "company_research", args |-> a] :
        a \in { [company |-> None, extra_context |-> ""],
                [company |-> Some(""), extra_context |-> "Polish my French CV"],
                [company |-> Some(" \n"), extra_context |-> "Polish my French CV"],
                [company |-> Some("Google"), extra_context |-> ""],
                [company |-> Some(" Google "), extra_context |-> "Polish my French CV"] } }
    \cup
    { [agent |-> "job_match",
       args |-> [resume_text |-> "Built APIs\n- Led a team of 5", job_description |-> jd]] :
        jd \in {"Backend Engineer, AWS", "Polish my French CV"} }
    \cup
    { [agent |-> "section_enhance", args |-> [bullets |-> b, role |-> "Software Engineer"]] :
        b \in {<<>>, <<"Built APIs", "- Led a team of 5">>} }

NoSnippetsNote ==
    "[No live web snippets available. Use your general knowledge and "
    \o "reasonable assumptions based on the company name and context.]"

\* _build_llm_prompt: the values interpolated into the prompt template
BuildLlmPrompt(comp, extra_context, web_snippets) ==
    [company |-> comp,
     extra_context |-> IF extra_context # "" THEN extra_context ELSE "N/A",
     web_block |-> IF web_snippets # "" THEN web_snippets ELSE NoSnippetsNote]

\* the values interpolated into the job-match prompt
JobMatchPrompt(text, jd) == [resume_text |-> text, job_description |-> jd]

\* the values interpolated into the section-enhance prompt
SectionEnhancePrompt(bullets, r) ==
    [joined |-> JoinWith([i \in DOMAIN bullets |-> "- " \o bullets[i]], "\n"), role |-> r]

\* the model's answers once it has answered prompt with out
Answered(prompt, out) ==
    IF out.ok THEN (prompt :> out.content) @@ model_answers ELSE model_answers

\* the model may answer prompt with out: a temperature-zero model repeats itself
MayAnswer(prompt, out) ==
    (out.ok /\ Has(model_answers, prompt)) => out.content = model_answers[prompt]

\* the record of one call of run: the answer of the search endpoint (None if
\* no request was sent), the grounding text, the prompt and the outcome of the
\* gateway call (None if none was made), the value returned, the exception raised
Run(http, web_snippets, prompt, out, returned, raised) ==
    [http |-> http, web_snippets |-> web_snippets, prompt |-> prompt, llm |-> out,
     returned |-> returned, raised |-> raised]

AgentInit ==
    /\ OrchestrationIdle
    /\ tavily_key \in TavilyKeys
    /\ \E c \in AgentCalls : agent = c.agent /\ agent_args = c.args
    /\ model_answers = <<>>
    /\ runs = <<>>
    /\ GatewayIdle
    /\ EndpointIdle
    /\ ServiceIdle

\* CompanyResearchAgent.run(company, extra_context)
CompanyResearchAgentRun ==
    /\ agent = "company_research"
    /\ Len(runs) < MaxRuns
    /\ LET comp == Strip(OrElse(agent_args.company, ""))
       IN  IF comp = ""
           THEN /\ runs' = Append(runs, Run(None, "", None, None, Some(CompanyNoName), ""))
                /\ UNCHANGED model_answers
           ELSE \E http \in SearchOutcomes, out \in GenerateOutcomes(CompanyTexts) :
                  LET web_snippets == SearchTavily(tavily_key, http)
                      prompt == BuildLlmPrompt(comp, agent_args.extra_context, web_snippets)
                  IN  /\ MayAnswer(prompt, out)
                      /\ model_answers' = Answered(prompt, out)
                      /\ runs' = Append(runs,
                            Run(IF TruthyStr(tavily_key) THEN Some(http) ELSE None, web_snippets,
                                Some(prompt), Some(out),
                                IF out.ok
                                THEN Some(CompanyResearchResult(out.content, web_snippets))
                                ELSE None,
                                IF out.ok THEN "" ELSE "RuntimeError"))
    /\ UNCHANGED << orchestration, tavily_key, agent, agent_args, gateway_vars,
                    endpoint_vars, service_vars >>

\* JobMatchAgent.run(resume_text, job_description)
JobMatchAgentRun ==
    /\ agent = "job_match"
    /\ Len(runs) < MaxRuns
    /\ \E out \in GenerateOutcomes(AgentTexts) :
         LET prompt == JobMatchPrompt(agent_args.resume_text, agent_args.job_description)
         IN  /\ MayAnswer(prompt, out)
             /\ model_answers' = Answered(prompt, out)
             /\ runs' = Append(runs,
                   Run(None, "", Some(prompt), Some(out),
                       IF out.ok THEN Some(JobMatchRun(out.content)) ELSE None,
                       IF out.ok THEN "" ELSE "RuntimeError"))
    /\ UNCHANGED << orchestration, tavily_key, agent, agent_args, gateway_vars,
                    endpoint_vars, service_vars >>

\* SectionEnhanceAgent.run(bullets, role)
SectionEnhanceAgentRun ==
    /\ agent = "section_enhance"
    /\ Len(runs) < MaxRuns
    /\ \E out \in GenerateOutcomes(AgentTexts) :
         LET prompt == SectionEnhancePrompt(agent_args.bullets, agent_args.role)
         IN  /\ MayAnswer(prompt, out)
             /\ model_answers' = Answered(prompt, out)
             /\ runs' = Append(runs,
                   Run(None, "", Some(prompt), Some(out),
                       IF out.ok THEN Some(SectionEnhanceRun(out.content)) ELSE None,
                       IF out.ok THEN "" ELSE "RuntimeError"))
    /\ UNCHANGED << orchestration, tavily_key, agent, agent_args, gateway_vars,
                    endpoint_vars, service_vars >>

AgentNext ==
    \/ CompanyResearchAgentRun
    \/ JobMatchAgentRun
    \/ SectionEnhanceAgentRun

AgentSpec == AgentInit /\ [][AgentNext]_vars

(***************************************************************************)
(* GroqClient called directly: the constructor, generate with and without  *)
(* expect_json, and the demo mode of a client that has no key.             *)
(***************************************************************************)
\* how many times generate is called
MaxCalls == 2

RECURSIVE LastIndex(_, _, _)
\* the greatest index <= i at which character c occurs in s, 0 if there is none
LastIndex(s, c, i) ==
    IF i < 1 THEN 0 ELSE IF ch(s, i) = c THEN i ELSE LastIndex(s, c, i - 1)

\* variant: the candidate ends at the first closing brace
ExtractCandidate_FirstClosingBrace(content) ==
    LET start == IndexFrom(content, "{", 1)
        end == IndexFrom(content, "}", 1)
    IN  IF start # 0 /\ end >= start THEN Some(Slice(content, start, end)) ELSE None

\* content[content.find("{") : content.rfind("}") + 1] when both braces are
\* found and the last "}" is not before the first "{", None otherwise
ExtractCandidate(content) ==
    LET start == IndexFrom(content, "{", 1)
        end == LastIndex(content, "}", Len(content))
    IN  IF start # 0 /\ end >= start THEN Some(Slice(content, start, end)) ELSE None

RECURSIVE ReprBody(_, _)
\* the characters of s as repr writes them between quotes q
ReprBody(s, q) ==
    IF s = "" THEN ""
    ELSE LET c == ch(s, 1)
             e == CASE c = "\\" -> "\\\\"
                    [] c = q -> "\\" \o q
                    [] c = "\n" -> "\\n"
                    [] c = "\r" -> "\\r"
                    [] c = "\t" -> "\\t"
                    [] OTHER -> c
         IN  e \o ReprBody(Slice(s, 2, Len(s)), q)

\* repr(s) of a str of printable ASCII, line breaks and tabs
Repr(s) ==
    LET q == IF Contains(s, "'") /\ ~Contains(s, "\"") THEN "\"" ELSE "'"
    IN  q \o ReprBody(s, q) \o q

\* an exception: its type and its message
Exc(type, msg) == [type |-> type, msg |-> msg]

\* what generate does with the outcome of the upstream call
\* (the message of the RuntimeError quotes the transport's own error and is
\* left out)
GenerateResult(expect_json, out) ==
    IF ~out.ok THEN [returned |-> None, raised |-> Some(Exc("RuntimeError", ""))]
    ELSE IF ~expect_json THEN [returned |-> Some(JStr(out.content)), raised |-> None]
    ELSE LET strict == JsonLoads(out.content)
             candidate == ExtractCandidate(out.content)
             loose == IF candidate = None THEN [ok |-> FALSE, val |-> JNull]
                      ELSE JsonLoads(candidate[1])
         IN  IF strict.ok THEN [returned |-> Some(strict.val), raised |-> None]
             ELSE IF loose.ok THEN [returned |-> Some(loose.val), raised |-> None]
             ELSE [returned |-> None,
                   raised |-> Some(Exc("ValueError",
                                       "Failed to parse JSON from model output: "
                                       \o Repr(out.content)))]

(***************************************************************************)
(* The demo payloads.  A Python dict literal keeps its keys in order,      *)
(* which json.dumps follows: a payload is written as a sequence of         *)
(* <<key, value>> pairs tagged "odict".                                    *)
(***************************************************************************)
ODict(pairs) == [t |-> "odict", v |-> pairs]

RECURSIVE AsValue(_)
\* the payload as a value: key order does not matter to dict equality
AsValue(x) ==
    CASE x.t = "odict" ->
           JDict([k \in {x.v[i][1] : i \in DOMAIN x.v} |->
                     AsValue(x.v[CHOOSE i \in DOMAIN x.v : x.v[i][1] = k][2])])
      [] x.t = "list" -> JList([i \in DOMAIN x.v |-> AsValue(x.v[i])])
      [] OTHER -> x

RECURSIVE JsonDumps(_)
\* json.dumps(x) with the default separators; the payload strings hold no
\* character that JSON escapes
JsonDumps(x) ==
    CASE x.t = "odict" ->
           "{" \o JoinWith([i \in DOMAIN x.v |->
                               "\"" \o x.v[i][1] \o "\": " \o JsonDumps(x.v[i][2])], ", ")
           \o "}"
      [] x.t = "list" -> "[" \o JoinWith([i \in DOMAIN x.v |-> JsonDumps(x.v[i])], ", ") \o "]"
      [] x.t = "str" -> "\"" \o x.v \o "\""
      [] x.t = "num" -> x.v
      [] x.t = "bool" -> IF x.v THEN "true" ELSE "false"
      [] x.t = "null" -> "null"

RECURSIVE Split(_, _)
\* s.split(c) for a one-character separator c
Split(s, c) ==
    LET i == IndexFrom(s, c, 1)
    IN  IF i = 0 THEN <<s>>
        ELSE <<Slice(s, 1, i - 1)>> \o Split(Slice(s, i + 1, Len(s)), c)

DemoClassify == "job_match,section_enhance,company_research"

DemoJobMatch ==
    ODict(<< <<"score", JNum("0.72")>>,
             <<"gaps", JList(<<JStr("cloud architecture"), JStr("system design")>>)>>,
             <<"suggestions", JList(<<JStr("Add metrics"), JStr("Highlight AWS/GCP")>>)>> >>)

DemoSectionEnhance ==
    ODict(<< <<"edits", JList(<<
        ODict(<< <<"index", JNum("0")>>,
                 <<"before", JStr("Worked on backend systems")>>,
                 <<"after", JStr("Designed backend services handling 1M+ daily requests "
                                 \o "with 30% lower latency")>>,
                 <<"explanation", JStr("Added metric + strong action verb")>> >>) >>)>> >>)

DemoCompanyResearch ==
    ODict(<< <<"company", JStr("ExampleCorp")>>,
             <<"about", JStr("A cloud infra company.")>>,
             <<"tone", JStr("technical, metrics-driven")>>,
             <<"keywords", JList(<<JStr("scalability"), JStr("SRE"),
                                   JStr("distributed systems")>>)>> >>)

\* the if-chain of _demo_response, on the prompt text pl
DemoPayload(pl, expect_json) ==
    IF Contains(pl, "classify")
    THEN IF ~expect_json THEN JStr(DemoClassify)
         ELSE LET parts == Split(DemoClassify, ",")
              IN  JList([i \in DOMAIN parts |-> JStr(Strip(parts[i]))])
    ELSE IF Contains(pl, "job_match")
    THEN IF expect_json THEN AsValue(DemoJobMatch) ELSE JStr(JsonDumps(DemoJobMatch))
    ELSE IF Contains(pl, "section_enhance")
    THEN IF expect_json THEN AsValue(DemoSectionEnhance)
         ELSE JStr(JsonDumps(DemoSectionEnhance))
    ELSE IF Contains(pl, "company_research")
    THEN IF expect_json THEN AsValue(DemoCompanyResearch)
         ELSE JStr(JsonDumps(DemoCompanyResearch))
    ELSE IF expect_json THEN JDict(<<>>) ELSE JStr("[]")

\* variant: the keywords are looked for in the prompt as given
DemoResponse_CaseSensitive(prompt, expect_json) == DemoPayload(prompt, expect_json)

\* _demo_response(prompt, expect_json)
DemoResponse(prompt, expect_json) == DemoPayload(Lower(prompt), expect_json)

\* the api_key argument of the constructor, and GROQ_API_KEY of the environment
ApiKeyArgs == {None, Some(""), Some("gsk-arg")}

EnvKeys == {"", "gsk-env"}

Prompts ==
    { "Classify this request",
      "JOB_MATCH:\nYou are an expert hiring screener.",
      "SECTION_ENHANCE:\nImprove the bullets.",
      "company_research about job_match",
      "Company_Research: Google",
      "section_enhance, then classify",
      "You research target companies." }

\* texts the chat-completion model may answer generate with
UpstreamTexts ==
    { "{\"a\": 1}",
      "[1, 2]",
      "\"plain\"",
      "Here you go: {\"edits\": []}",
      "Sure! {\"a\": {\"b\": 2}} done",
      "{\"a\": 1} and {\"b\": 2}",
      "} oops {",
      "Can't say\n" }

\* the record of one call of generate: the outcome of the upstream request
\* (None if none was sent), the value returned, the exception raised
Call(upstream, res) == [upstream |-> upstream, returned |-> res.returned, raised |-> res.raised]

\* the client after GroqClient(api_key), before any call
GatewayInit ==
    /\ OrchestrationIdle
    /\ tavily_key = None
    /\ AgentIdle
    /\ EndpointIdle
    /\ ServiceIdle
    /\ \E arg \in ApiKeyArgs, env \in EnvKeys :
         /\ api_key = OrElse(arg, env)
         /\ demo_mode = (OrElse(arg, env) = "")
    /\ generate_args \in [prompt : Prompts, expect_json : BOOLEAN]
    /\ calls = <<>>

\* GroqClient.generate(prompt, expect_json=...)
Generate ==
    /\ generate_args # <<>>
    /\ Len(calls) < MaxCalls
    /\ IF demo_mode
       THEN calls' = Append(calls,
                Call(None, [returned |-> Some(DemoResponse(generate_args.prompt,
                                                           generate_args.expect_json)),
                            raised |-> None]))
       ELSE \E out \in GenerateOutcomes(UpstreamTexts) :
              calls' = Append(calls,
                  Call(Some(out), GenerateResult(generate_args.expect_json, out)))
    /\ UNCHANGED << orchestration, tavily_key, agent_vars, api_key, demo_mode, generate_args,
                    endpoint_vars, service_vars >>

GatewayNext == Generate

GatewaySpec == GatewayInit /\ [][GatewayNext]_vars

(***************************************************************************)
(* The /chat_nl endpoint: it reads the request body, checks the version,   *)
(* runs handle_message, logs the user's message and the answer with        *)
(* log_message, and returns the result.  An exception that leaves the      *)
(* endpoint is answered by the framework with status 500.                  *)
(***************************************************************************)
VersionIdKeys ==
    << "resume_version_id", "resumeVersionId", "version_id", "versionId",
       "selectedVersionId", "selected_version_id" >>

MessageKeys == <<"user_message", "userMessage", "message", "text", "prompt", "query">>

ConversationKeys == <<"conversation_id", "conversationId">>

\* variant: only the first spelling of the key is looked up
FirstTruthy_FirstKeyOnly(d, keys) == GetOr(d, keys[1], JNull)

\* body.get(k1) or body.get(k2) or ... : the first truthy value, the last
\* operand when none is truthy
FirstTruthy(d, keys) ==
    LET hits == {i \in DOMAIN keys : Truthy(GetOr(d, keys[i], JNull))}
    IN  IF hits = {} THEN GetOr(d, keys[Len(keys)], JNull)
        ELSE d[keys[CHOOSE i \in hits : \A j \in hits : i <= j]]

DigitOf(c) ==
    CASE c = "0" -> 0 [] c = "1" -> 1 [] c = "2" -> 2 [] c = "3" -> 3 [] c = "4" -> 4
      [] c = "5" -> 5 [] c = "6" -> 6 [] c = "7" -> 7 [] c = "8" -> 8 [] c = "9" -> 9

RECURSIVE ParseInt(_)
\* int(x) of a run of decimal digits
ParseInt(lit) ==
    IF lit = "" THEN 0
    ELSE ParseInt(Slice(lit, 1, Len(lit) - 1)) * 10 + DigitOf(ch(lit, Len(lit)))

\* the request bodies: JSON objects whose version id is a whole number or a
\* string of digits and whose message is a string
Bodies ==
    { ("resume_version_id" :> JNum("1")) @@ ("user_message" :> JStr("Polish my French CV")),
      ("resumeVersionId" :> JStr("1")) @@ ("message" :> JStr("Translate my CV to Urdu"))
          @@ ("conversationId" :> JStr("c-42")),
      ("resume_version_id" :> JNum("0")) @@ ("versionId" :> JNum("2"))
          @@ ("text" :> JStr("Polish my French CV")) @@ ("conversation_id" :> JStr("")),
      ("resume_version_id" :> JNum("3")) @@ ("user_message" :> JStr("Polish my French CV")),
      ("resume_version_id" :> JNum("0")) @@ ("user_message" :> JStr("Polish my French CV")),
      ("resume_version_id" :> JNum("1")) @@ ("user_message" :> JStr("")),
      ("query" :> JStr("Polish my French CV")) }

\* the response of the endpoint: HTTPException(status, detail), status 500
\* for any other exception, or JSONResponse(content)
HttpError(status, detail) == [status |-> status, detail |-> detail, content |-> None]

JsonResponse(content) == [status |-> 200, detail |-> "", content |-> Some(content)]

\* the document log_message writes, created_at aside
LogEntry(conversation_id, r, content, extra) ==
    [conversation_id |-> conversation_id, role |-> r, content |-> content, extra |-> extra]

\* str(x), kept as the value it is the text of
StrOf(x) == [str |-> x]

\* the values chat_nl reads from the body
RequestVersionId == FirstTruthy(body, VersionIdKeys)

RequestMessage == FirstTruthy(body, MessageKeys)

RequestConversationId ==
    LET c == FirstTruthy(body, ConversationKeys)
    IN  IF Truthy(c) THEN c.v ELSE "default-conversation"

ChatNlInit ==
    /\ OrchestrationIdle
    /\ tavily_key = None
    /\ AgentIdle
    /\ GatewayIdle
    /\ ServiceIdle
    /\ body \in Bodies
    /\ endpoint_pc = "start"
    /\ logged = <<>>
    /\ response = None

\* chat_nl up to the call of handle_message
ChatNlReceive ==
    /\ endpoint_pc = "start"
    /\ IF ~Truthy(RequestVersionId)
       THEN /\ response' = Some(HttpError(400, "resume_version_id is required"))
            /\ endpoint_pc' = "done"
            /\ UNCHANGED orchestration
       ELSE IF ~Truthy(RequestMessage)
       THEN /\ response' = Some(HttpError(400, "user_message is required"))
            /\ endpoint_pc' = "done"
            /\ UNCHANGED orchestration
       ELSE IF GetVersion(ParseInt(RequestVersionId.v)) = None
       THEN /\ response' = Some(HttpError(404, "version not found"))
            /\ endpoint_pc' = "done"
            /\ UNCHANGED orchestration
       ELSE /\ message' = RequestMessage.v
            /\ resume_version_id' = Some(ParseInt(RequestVersionId.v))
            /\ role' = None
            /\ company' = None
            /\ job_description' = None
            /\ pc' = "load"
            /\ endpoint_pc' = "handling"
            /\ UNCHANGED << response, resume_text, route, classifier_called, classifier_text,
                            agents_called, structured, invoked, llm_calls, web_calls, args,
                            synth_reply, translation_reply, content_to_translate, result,
                            error >>
    /\ UNCHANGED <<tavily_key, agent_vars, gateway_vars, body, logged, service_vars>>

\* handle_message raised: the exception leaves chat_nl
ChatNlRaise ==
    /\ endpoint_pc = "handling"
    /\ pc = "failed"
    /\ response' = Some(HttpError(500, "Internal Server Error"))
    /\ endpoint_pc' = "done"
    /\ UNCHANGED << orchestration, tavily_key, agent_vars, gateway_vars, body, logged,
                    service_vars >>

\* log_message(..., role="user", content=user_message, ...): doc_ref.set
\* writes the document or raises
ChatNlLogUser ==
    /\ endpoint_pc = "handling"
    /\ pc = "done"
    /\ \E written \in BOOLEAN :
         IF written
         THEN /\ logged' = Append(logged,
                     LogEntry(RequestConversationId, "user", RequestMessage.v,
                              [resume_version_id |-> resume_version_id[1]]))
              /\ endpoint_pc' = "log_assistant"
              /\ UNCHANGED response
         ELSE /\ response' = Some(HttpError(500, "Internal Server Error"))
              /\ endpoint_pc' = "done"
              /\ UNCHANGED logged
    /\ UNCHANGED <<orchestration, tavily_key, agent_vars, gateway_vars, body, service_vars>>

\* log_message(..., role="assistant", content=str(result), ...) and the return
ChatNlLogAssistant ==
    /\ endpoint_pc = "log_assistant"
    /\ \E written \in BOOLEAN :
         IF written
         THEN /\ logged' = Append(logged,
                     LogEntry(RequestConversationId, "assistant", StrOf(result[1]),
                              [resume_version_id |-> resume_version_id[1]]))
              /\ response' = Some(JsonResponse([resume_version_id |-> resume_version_id[1],
                                                result |-> result[1]]))
         ELSE /\ response' = Some(HttpError(500, "Internal Server Error"))
              /\ UNCHANGED logged
    /\ endpoint_pc' = "done"
    /\ UNCHANGED <<orchestration, tavily_key, agent_vars, gateway_vars, body, service_vars>>

ChatNlNext ==
    \/ ChatNlReceive
    \/ LoadResume
    \/ ManualOverride
    \/ ClassifierRoute
    \/ CompanyResearch
    \/ JobMatch
    \/ SectionEnhance
    \/ Synthesize
    \/ TranslateAndReturn
    \/ ChatNlRaise
    \/ ChatNlLogUser
    \/ ChatNlLogAssistant

ChatNlSpec == ChatNlInit /\ [][ChatNlNext]_vars

(***************************************************************************)
(* The /chat endpoint of app.py and Router.route.  The handler has no      *)
(* await in it, so one request is handled at a time.                       *)
(***************************************************************************)
MaxChats == 3

\* texts the model may answer the CLASSIFY prompt with
RouterTexts ==
    { "",
      " , ",
      "section_enhance",
      "job_match, company_research",
      "company_research,section_enhance, " }

NonBlank(x) == Strip(x) # ""

\* Router.route on the model's answer: the labels, and whether the list
\* returned is the DEFAULT_AGENTS object itself
RouterRoute(resp, defaults) ==
    IF resp = "" THEN [shared |-> TRUE, labels |-> defaults]
    ELSE LET parts == SelectSeq(Split(Strip(resp), ","), NonBlank)
             labels == [i \in DOMAIN parts |-> Strip(parts[i])]
         IN  IF labels = <<>> THEN [shared |-> TRUE, labels |-> defaults]
             ELSE [shared |-> FALSE, labels |-> labels]

ChatRequest(rvid, user_message, jd, company_name, bullets, r) ==
    [resume_version_id |-> rvid, user_message |-> user_message, job_description |-> jd,
     company_name |-> company_name, bullets |-> bullets, role |-> r]

ChatRequests ==
    { ChatRequest(Some(1), "Optimize my resume for this job", Some("Data Scientist at Google"),
                  Some("Google"), None, Some("Software Engineer")),
      ChatRequest(None, "Optimize my resume for this job", Some("Data Scientist at Google"),
                  None, None, Some("Software Engineer")),
      ChatRequest(Some(2), "Optimize my resume for this job", Some("Data Scientist at Google"),
                  Some(" "), None, Some("Software Engineer")),
      ChatRequest(Some(3), "Optimize my resume for this job", Some("Data Scientist at Google"),
                  None, None, Some("Software Engineer")),
      ChatRequest(Some(1), "Rewrite my bullet points", None, Some(" "), None, None),
      ChatRequest(Some(0), "Rewrite my bullet points", Some(""), None,
                  Some(<<"Built APIs">>), Some("Data Engineer")),
      ChatRequest(Some(1), "Rewrite my bullet points", Some(""), None, None,
                  Some("Software Engineer")) }

\* what the model answers an agent of /chat: nothing (the call fails) or one
\* JSON object
ChatAgentOutcomes ==
    GenerateOutcomes({"{\"score\": 0.72, \"gaps\": [\"system design\"], \"suggestions\": []}"})

\* store.get_version on the rows as they are
GetRow(rows, id) == IF id \in DOMAIN rows THEN Some(rows[id]) ELSE None

\* `label in labels` for a list of labels
Holds(labels, label) == label \in {labels[i] : i \in DOMAIN labels}

\* variant: the label is appended whenever job match ran
NeedsForcedLabel_Always(agents_to_run) == TRUE

\* `if "job_match" not in agents_to_run:`
NeedsForcedLabel(agents_to_run) == ~Holds(agents_to_run, "job_match")

\* the text of the version the request names, "" if it names none
ChatResumeText(req, rows) ==
    IF ~TruthyInt(req.resume_version_id) THEN ""
    ELSE IF GetRow(rows, req.resume_version_id[1]) = None THEN ""
    ELSE OrElse(GetRow(rows, req.resume_version_id[1])[1].raw_text, "")

\* `if "company_research" in agents_to_run and req.company_name:`
ChatRunsCompany(req, labels) ==
    Holds(labels, "company_research") /\ TruthyStr(req.company_name)

\* `if should_run_job_match and resume_text:`
ChatRunsJobMatch(req, text) == TruthyStr(req.job_description) /\ text # ""

\* agents_to_run after the job-match block
ChatAgentsToRun(labels, runs_job) ==
    IF runs_job /\ NeedsForcedLabel(labels) THEN Append(labels, "job_match_forced")
    ELSE labels

\* what chat has done when it is left: the DEFAULT_AGENTS object, the list
\* Router.route returned, the agents entered and the response
ChatDone(defaults, routed, invoked_here, resp) ==
    [defaults |-> defaults, routed |-> routed, invoked |-> invoked_here, response |-> resp]

\* the three agent blocks and the return
ChatAgents(defaults, routed, runs_company, company_llm, runs_job, agents_to_run, runs_section, cout, jout, sout) ==
    IF company_llm /\ ~cout.ok
    THEN ChatDone(defaults, Some(routed), <<"company_research">>,
                  HttpError(500, "Internal Server Error"))
    ELSE IF runs_job /\ ~jout.ok
    THEN ChatDone(defaults, Some(routed),
                  (IF runs_company THEN <<"company_research">> ELSE <<>>) \o <<"job_match">>,
                  HttpError(500, "Internal Server Error"))
    ELSE ChatDone(
             IF routed.shared THEN agents_to_run ELSE defaults,
             Some(routed),
             (IF runs_company THEN <<"company_research">> ELSE <<>>)
                 \o (IF runs_job THEN <<"job_match">> ELSE <<>>)
                 \o (IF runs_section THEN <<"section_enhance">> ELSE <<>>),
             IF runs_section /\ ~sout.ok THEN HttpError(500, "Internal Server Error")
             ELSE JsonResponse(
                      [agents_called |-> agents_to_run,
                       result |->
                           (IF runs_company
                            THEN "company_research" :>
                                     (IF company_llm
                                      THEN CompanyResearchResult(cout.content, "")
                                      ELSE CompanyNoName)
                            ELSE <<>>)
                           @@ (IF runs_job THEN "job_match" :> JobMatchRun(jout.content)
                               ELSE <<>>)
                           @@ (IF runs_section
                               THEN "section_enhance" :> SectionEnhanceRun(sout.content)
                               ELSE <<>>)]))

\* chat from the version lookup on
ChatRouted(req, rows, defaults, routed, text, runs_job, cout, jout, sout) ==
    IF TruthyInt(req.resume_version_id) /\ GetRow(rows, req.resume_version_id[1]) = None
    THEN ChatDone(defaults, Some(routed), <<>>, HttpError(404, "version not found"))
    ELSE ChatAgents(defaults, routed,
                    ChatRunsCompany(req, routed.labels),
                    ChatRunsCompany(req, routed.labels) /\ Strip(req.company_name[1]) # "",
                    runs_job,
                    ChatAgentsToRun(routed.labels, runs_job),
                    Holds(ChatAgentsToRun(routed.labels, runs_job), "section_enhance"),
                    cout, jout, sout)

\* chat: what it does for one request, given what the model answers
ChatHandled(req, rows, defaults, rout, cout, jout, sout) ==
    IF ~rout.ok THEN ChatDone(defaults, None, <<>>, HttpError(500, "Internal Server Error"))
    ELSE ChatRouted(req, rows, defaults, RouterRoute(rout.content, defaults),
                    ChatResumeText(req, rows),
                    ChatRunsJobMatch(req, ChatResumeText(req, rows)),
                    cout, jout, sout)

ChatInit ==
    /\ OrchestrationIdle
    /\ tavily_key = None
    /\ AgentIdle
    /\ GatewayIdle
    /\ EndpointIdle
    /\ ServiceIdle

\* the request is answered: the module list and the record of the request
ChatLeave(req, done) ==
    /\ default_agents' = done.defaults
    /\ chat' = [req |-> req, routed |-> done.routed, invoked |-> done.invoked,
                response |-> done.response]

\* POST /chat
Chat ==
    /\ chats < MaxChats
    /\ \E req \in ChatRequests, rout \in GenerateOutcomes(RouterTexts),
          cout \in ChatAgentOutcomes, jout \in ChatAgentOutcomes, sout \in ChatAgentOutcomes :
         ChatLeave(req, ChatHandled(req, versions, default_agents, rout, cout, jout, sout))
    /\ chats' = chats + 1
    /\ UNCHANGED << orchestration, tavily_key, agent_vars, gateway_vars, endpoint_vars,
                    versions, changes, applied, uploads, resumes, overlapped >>

ChatNext == Chat

ChatSpec == ChatInit /\ [][ChatNext]_vars

(***************************************************************************)
(* The /apply_changes and /upload_resume endpoints of app.py and the Store. *)
(* A request is a sequence of steps, one per call of the Store, between    *)
(* which other requests run.  The Store has one Session for all requests,  *)
(* used from the worker threads of apply_changes and from the loop thread  *)
(* of upload_resume without a lock, and nothing rolls it back: once two    *)
(* requests have been in their handlers at the same time, a call of the    *)
(* Store returns or raises.                                                *)
(***************************************************************************)
MaxChanges == 2

\* one element of req.edits: edit.get("before") and edit.get("after"), None
\* for a key that is missing or null
Edit(before, after) == [before |-> before, after |-> after]

EditLists ==
    { <<>>,
      <<Edit(Some("Led a team of 5"), Some("Led a team of 8"))>>,
      <<Edit(Some("APIs"), Some("")), Edit(Some("Built"), None)>>,
      <<Edit(None, Some("- Shipped v2"))>>,
      <<Edit(Some(""), Some("- Mentored 3"))>>,
      <<Edit(Some("Java"), Some("Kotlin"))>>,
      <<Edit(Some(" "), Some("_"))>>,
      <<Edit(Some("Built"), Some("Designed")), Edit(Some("Designed APIs"), Some("REST APIs"))>> }

ApplyChangeRequest(resume_id, base_version_id, edits) ==
    [resume_id |-> resume_id, base_version_id |-> base_version_id, edits |-> edits]

\* base version 1 has a text, 2 an empty one, 3 is there once a request has
\* added it, 9 never
ApplyChangeRequests ==
    {ApplyChangeRequest(1, 1, e) : e \in EditLists \ {<<Edit(Some(" "), Some("_"))>>}}
        \cup {ApplyChangeRequest(1, 2, <<Edit(Some(" "), Some("_"))>>),
              ApplyChangeRequest(1, 3, <<Edit(Some("Built"), Some("Designed")),
                                         Edit(Some("Designed APIs"), Some("REST APIs"))>>),
              ApplyChangeRequest(1, 9, <<Edit(None, Some("- Shipped v2"))>>)}

\* raw.replace(before, after, 1) for a before that occurs in raw
ReplaceFirst(raw, before, after) ==
    Slice(raw, 1, Find(raw, before) - 1) \o after
        \o Slice(raw, Find(raw, before) + Len(before), Len(raw))

\* one round of the loop over req.edits
ApplyEdit(raw, edit) ==
    IF ~TruthyStr(edit.after) THEN raw
    ELSE IF TruthyStr(edit.before) /\ Contains(raw, edit.before[1])
    THEN ReplaceFirst(raw, edit.before[1], edit.after[1])
    ELSE raw \o "\n" \o edit.after[1]

RECURSIVE ApplyEdits(_, _)
\* the loop over req.edits
ApplyEdits(raw, edits) ==
    IF edits = <<>> THEN raw
    ELSE ApplyEdits(ApplyEdit(raw, Head(edits)), Tail(edits))

\* the id the database gives the next row of resume_versions
NextVersionId(rows) == Cardinality(DOMAIN rows) + 1

\* Store.add_version: a new row, the others as they were; parent_version is
\* None for an upload and Some(base_version_id) for apply_changes
AddVersion(rows, raw_text, parent_version) ==
    (NextVersionId(rows) :> [raw_text |-> Some(raw_text), parent_version |-> parent_version])
    @@ rows

MaxUploads == 1

\* an uploaded file: its name and its bytes, read as text
UploadFile(filename, contents) == [filename |-> filename, contents |-> contents]

UploadFiles ==
    { UploadFile("cv.txt", "Summary\nBuilt APIs"),
      UploadFile("cv.md", "Work Experience: Led a team of 5") }

\* the headings parse_resume_file looks for
SectionMarkers ==
    << "experience", "work experience", "professional experience", "education",
       "skills", "projects", "summary" >>

\* the number of characters kept from a heading on
SectionBudget == 800

\* parse_resume_file for a file that is neither pdf nor doc nor docx: the
\* text, and per heading found the text from its first occurrence on
ParseResumeFile(file) ==
    [raw_text |-> file.contents,
     sections |->
        [m \in {SectionMarkers[i] : i \in {j \in DOMAIN SectionMarkers :
                                             Contains(Lower(file.contents), SectionMarkers[j])}} |->
            Slice(file.contents, Find(Lower(file.contents), m),
                  Find(Lower(file.contents), m) + SectionBudget - 1)]]

\* one apply_changes request in its worker thread: pc is "edited" after the
\* loop over req.edits, "stored" after store.add_version, "done" when answered;
\* rows_before are the rows store.get_version looked in, raw the edited text,
\* new_v the id of the row add_version returned, added the ids of the rows
\* this request inserted
ApplyCall(req, at, rows, raw, new_v, added, resp) ==
    [req |-> req, pc |-> at, rows_before |-> rows, raw |-> raw, new_v |-> new_v,
     added |-> added, response |-> resp]

\* one upload_resume request: pc is "parsed" from parse_resume_file until
\* store.add_version has returned, "stored" after it, "done" when answered;
\* resume_id is r.id, None until store.create_resume has returned
UploadCall(file, at, resume_id, new_v, added, resp) ==
    [file |-> file, pc |-> at, parsed |-> ParseResumeFile(file), resume_id |-> resume_id,
     new_v |-> new_v, added |-> added, response |-> resp]

\* a request that has arrived is not answered yet
Unanswered(applies, ups) ==
    \/ \E k \in DOMAIN applies : applies[k].pc # "done"
    \/ \E k \in DOMAIN ups : ups[k].pc # "done"

\* what a call of the Store comes to.  While one thread at a time has used
\* the Session it returns.  After two requests have used it at the same time
\* it returns, or raises before the row is written (in add or commit), or
\* raises with the row written (in refresh)
StoreOutcomes(raced) == IF raced THEN {"ok", "raised", "written_raised"} ELSE {"ok"}

\* the answer to a request whose handler raised
ServerError == HttpError(500, "Internal Server Error")

ApplyInit ==
    /\ OrchestrationIdle
    /\ tavily_key = None
    /\ AgentIdle
    /\ GatewayIdle
    /\ EndpointIdle
    /\ ServiceIdle

\* apply_changes up to the end of the loop: store.get_version raises, or
\* finds no base version, or the edits are applied to the text of the base
\* version (every stored row has a text here)
ApplyRead ==
    /\ changes < MaxChanges
    /\ overlapped' = (overlapped \/ Unanswered(applied, uploads))
    /\ \E req \in ApplyChangeRequests,
          got \in StoreOutcomes(overlapped \/ Unanswered(applied, uploads)) \ {"written_raised"} :
         applied' = Append(applied,
            IF got = "raised"
            THEN ApplyCall(req, "done", versions, None, None, {}, Some(ServerError))
            ELSE IF GetRow(versions, req.base_version_id) = None
            THEN ApplyCall(req, "done", versions, None, None, {},
                           Some(HttpError(404, "base version not found")))
            ELSE ApplyCall(req, "edited", versions,
                           Some(ApplyEdits(versions[req.base_version_id].raw_text[1], req.edits)),
                           None, {}, None))
    /\ changes' = changes + 1
    /\ UNCHANGED << orchestration, tavily_key, agent_vars, gateway_vars, endpoint_vars,
                    default_agents, chats, chat, versions, uploads, resumes >>

\* apply_changes at store.add_version: the row gets the id that is next when
\* it is written
ApplyStore ==
    /\ \E i \in DOMAIN applied, out \in StoreOutcomes(overlapped) :
         /\ applied[i].pc = "edited"
         /\ versions' = IF out = "raised" THEN versions
                        ELSE AddVersion(versions, applied[i].raw[1],
                                        Some(applied[i].req.base_version_id))
         /\ applied' = [applied EXCEPT ![i] =
               ApplyCall(applied[i].req,
                         IF out = "ok" THEN "stored" ELSE "done",
                         applied[i].rows_before,
                         applied[i].raw,
                         IF out = "ok" THEN Some(NextVersionId(versions)) ELSE None,
                         IF out = "raised" THEN {} ELSE {NextVersionId(versions)},
                         IF out = "ok" THEN None ELSE Some(ServerError))]
    /\ UNCHANGED << orchestration, tavily_key, agent_vars, gateway_vars, endpoint_vars,
                    default_agents, chats, chat, changes, uploads, resumes, overlapped >>

\* apply_changes from index_resume on: indexing and logging succeed and the
\* id is returned, or one of them raises
ApplyPublish ==
    /\ \E i \in DOMAIN applied, published \in BOOLEAN :
         /\ applied[i].pc = "stored"
         /\ applied' = [applied EXCEPT ![i] =
               ApplyCall(applied[i].req, "done", applied[i].rows_before, applied[i].raw,
                         applied[i].new_v, applied[i].added,
                         Some(IF published
                              THEN JsonResponse([new_version_id |-> applied[i].new_v[1]])
                              ELSE ServerError))]
    /\ UNCHANGED << orchestration, tavily_key, agent_vars, gateway_vars, endpoint_vars,
                    default_agents, chats, chat, versions, changes, uploads, resumes,
                    overlapped >>

\* POST /apply_changes, a plain def the framework runs in a worker thread:
\* other requests run between its steps
ApplyChanges == ApplyRead \/ ApplyStore \/ ApplyPublish

\* upload_resume after `await file.read()`: the file is parsed.  The handler
\* does not await again, so no other upload runs before it has answered
UploadParse ==
    /\ Len(uploads) < MaxUploads
    /\ \A k \in DOMAIN uploads : uploads[k].pc = "done"
    /\ overlapped' = (overlapped \/ Unanswered(applied, uploads))
    /\ \E file \in UploadFiles :
         uploads' = Append(uploads, UploadCall(file, "parsed", None, None, {}, None))
    /\ UNCHANGED << orchestration, tavily_key, agent_vars, gateway_vars, endpoint_vars,
                    default_agents, chats, chat, versions, changes, applied, resumes >>

\* upload_resume at store.create_resume: a resume row, written in a commit
\* of its own
UploadCreate ==
    /\ \E j \in DOMAIN uploads, made \in StoreOutcomes(overlapped) :
         /\ uploads[j].pc = "parsed"
         /\ uploads[j].resume_id = None
         /\ resumes' = IF made = "raised" THEN resumes ELSE resumes + 1
         /\ uploads' = [uploads EXCEPT ![j] =
               UploadCall(uploads[j].file,
                          IF made = "ok" THEN "parsed" ELSE "done",
                          IF made = "ok" THEN Some(resumes + 1) ELSE None,
                          None, {},
                          IF made = "ok" THEN None ELSE Some(ServerError))]
    /\ UNCHANGED << orchestration, tavily_key, agent_vars, gateway_vars, endpoint_vars,
                    default_agents, chats, chat, versions, changes, applied, overlapped >>

\* upload_resume at store.add_version: a version row without a parent, with
\* the id that is next when it is written
UploadStore ==
    /\ \E j \in DOMAIN uploads, out \in StoreOutcomes(overlapped) :
         /\ uploads[j].pc = "parsed"
         /\ uploads[j].resume_id # None
         /\ versions' = IF out = "raised" THEN versions
                        ELSE AddVersion(versions, uploads[j].parsed.raw_text, None)
         /\ uploads' = [uploads EXCEPT ![j] =
               UploadCall(uploads[j].file,
                          IF out = "ok" THEN "stored" ELSE "done",
                          uploads[j].resume_id,
                          IF out = "ok" THEN Some(NextVersionId(versions)) ELSE None,
                          IF out = "raised" THEN {} ELSE {NextVersionId(versions)},
                          IF out = "ok" THEN None ELSE Some(ServerError))]
    /\ UNCHANGED << orchestration, tavily_key, agent_vars, gateway_vars, endpoint_vars,
                    default_agents, chats, chat, changes, applied, resumes, overlapped >>

\* upload_resume from index_resume on: indexing and logging succeed and the
\* ids and the sections are returned, or one of them raises
UploadPublish ==
    /\ \E j \in DOMAIN uploads, published \in BOOLEAN :
         /\ uploads[j].pc = "stored"
         /\ uploads' = [uploads EXCEPT ![j] =
               UploadCall(uploads[j].file, "done", uploads[j].resume_id, uploads[j].new_v,
                          uploads[j].added,
                          Some(IF published
                               THEN JsonResponse([resume_id |-> uploads[j].resume_id[1],
                                                  version_id |-> uploads[j].new_v[1],
                                                  parsed_sections |-> uploads[j].parsed.sections])
                               ELSE ServerError))]
    /\ UNCHANGED << orchestration, tavily_key, agent_vars, gateway_vars, endpoint_vars,
                    default_agents, chats, chat, versions, changes, applied, resumes,
                    overlapped >>

\* POST /upload_resume
UploadResume == UploadParse \/ UploadCreate \/ UploadStore \/ UploadPublish

ApplyNext == ApplyChanges \/ UploadResume

ApplySpec == ApplyInit /\ [][ApplyNext]_vars

(***************************************************************************)
(* Vocabulary of the properties.                                           *)
(***************************************************************************)
Range(q) == {q[i] : i \in 1..Len(q)}

Last(q) == q[Len(q)]

\* the message contains "translate" and a recognised alias, case-insensitively
OverrideApplies(m) ==
    LET msg == Lower(m)
    IN  /\ Contains(msg, "translate")
        /\ \E i \in 1..Len(LangMap) : Contains(msg, LangMap[i][1])

\* the request names a stored version whose raw_text is a non-empty string
ResumePresent ==
    /\ resume_version_id # None
    /\ resume_version_id[1] \in DOMAIN StoreVersions
    /\ StoreVersions[resume_version_id[1]] # None
    /\ StoreVersions[resume_version_id[1]][1] # ""

StoredResumeText == StoreVersions[resume_version_id[1]][1]

Capabilities == {"company_research", "job_match", "section_enhance"}

FlagOf(r, cap) ==
    CASE cap = "company_research" -> r.run_company_research
      [] cap = "job_match" -> r.run_job_match
      [] cap = "section_enhance" -> r.run_section_enhance

InputPresent(cap) ==
    IF cap = "company_research" THEN company # None /\ company[1] # "" ELSE ResumePresent

\* the capability is requested by the routing decision and has its input
Actionable(cap) == route # None /\ FlagOf(route[1], cap) /\ InputPresent(cap)

IsTranslationMarker(label) == Slice(label, 1, 12) = "translation:"

TranslationCalled == \E i \in DOMAIN llm_calls : llm_calls[i].purpose = "translation"

\* the only way handle_message fails after routing: the last gateway call failed
FailedOnTransport ==
    /\ error = "RuntimeError"
    /\ llm_calls # <<>>
    /\ ~Last(llm_calls).ok

(***************************************************************************)
(* C1.  A message that contains "translate" and a recognised alias is      *)
(* routed by the manual override: translate is true, the target language   *)
(* is the canonical name of a matched alias, the three capability flags    *)
(* are false and the classifier is never consulted.  Any other message is  *)
(* routed by exactly what the classifier answered.  The decision returned  *)
(* is the decision resolved.                                               *)
(***************************************************************************)
C1_ManualOverrideWins ==
    LET applies == OverrideApplies(message)
        msg == Lower(message)
    IN  /\ applies => ~classifier_called /\ classifier_text = None
        /\ (route # None /\ ~applies) => classifier_called /\ classifier_text # None
        /\ (route # None /\ applies) =>
              /\ route[1].translate
              /\ \E i \in 1..Len(LangMap) :
                    /\ Contains(msg, LangMap[i][1])
                    /\ route[1].target_language = Some(LangMap[i][2])
              /\ ~route[1].run_job_match
              /\ ~route[1].run_company_research
              /\ ~route[1].run_section_enhance
        /\ result # None =>
              /\ result[1].routing_decision = route[1]
              /\ ~applies =>
                    /\ ParseNLRoute(classifier_text[1]).ok
                    /\ result[1].routing_decision = ParseNLRoute(classifier_text[1]).route

\* a mixed-case override message was answered
C1_Witness ==
    /\ pc = "done"
    /\ result # None
    /\ OverrideApplies(message)
    /\ message # Lower(message)

(***************************************************************************)
(* C2.  A capability agent is entered only when its flag is true and its   *)
(* input is present; in a returned result a capability is a key of         *)
(* structured exactly when its flag is true and its input is present, and  *)
(* exactly those capabilities were entered.  A request fails after         *)
(* routing only through a failed gateway call, never through a skip.       *)
(***************************************************************************)
C2_RunsIffFlagAndInput ==
    /\ \A cap \in Capabilities :
         /\ cap \in Range(invoked) => Actionable(cap)
         /\ Has(structured, cap) => cap \in Range(invoked)
         /\ pc = "done" =>
              /\ Has(result[1].structured, cap) <=> Actionable(cap)
              /\ cap \in Range(invoked) <=> Actionable(cap)
    /\ (pc = "failed" /\ route # None) => FailedOnTransport

\* job_match ran, and company research was requested without a company
C2_Witness ==
    /\ pc = "done"
    /\ route[1].run_company_research
    /\ ~InputPresent("company_research")
    /\ route[1].run_job_match
    /\ Has(result[1].structured, "job_match")
    /\ ~route[1].run_section_enhance

(***************************************************************************)
(* C3.  In every returned routing decision target_language is non-null     *)
(* if and only if translate is true.                                       *)
(***************************************************************************)
C3_TargetLanguageIffTranslate ==
    result # None =>
        (result[1].routing_decision.target_language # None
            <=> result[1].routing_decision.translate)

(***************************************************************************)
(* C4.  A returned result whose decision has translate = true carries the  *)
(* translation call's output as reply and ends agents_called with the      *)
(* marker "translation:<target_language>"; with translate = false no       *)
(* translation call was made and no marker is listed.                      *)
(***************************************************************************)
C4_TranslateMeansTranslated ==
    result # None =>
        LET rd == result[1].routing_decision
            called == result[1].agents_called
        IN  IF rd.translate
            THEN /\ TranslationCalled
                 /\ translation_reply # None
                 /\ result[1].reply = translation_reply[1]
                 /\ called # <<>>
                 /\ rd.target_language # None
                 /\ Last(called) = "translation:" \o rd.target_language[1]
            ELSE /\ ~TranslationCalled
                 /\ \A i \in DOMAIN called : ~IsTranslationMarker(called[i])

(***************************************************************************)
(* C5.  When the translation call is made, the text translated is the      *)
(* stored resume text if translate is the only thing requested and the     *)
(* resume text is non-empty, and the synthesized reply otherwise.  When     *)
(* the manual override fired with a resume present, the result has an      *)
(* empty structured and the translation marker as its only label.          *)
(***************************************************************************)
C5_TranslationSource ==
    /\ TranslationCalled =>
         content_to_translate =
            Some(IF /\ route[1].translate
                    /\ \A cap \in Capabilities : ~FlagOf(route[1], cap)
                    /\ ResumePresent
                 THEN StoredResumeText
                 ELSE synth_reply[1])
    /\ (pc = "done" /\ OverrideApplies(message) /\ ResumePresent) =>
         /\ content_to_translate = Some(StoredResumeText)
         /\ result[1].structured = <<>>
         /\ result[1].agents_called = <<"translation:" \o route[1].target_language[1]>>

\* a translation that also ran job_match: the reply is translated, not the resume
C5_Witness ==
    /\ pc = "done"
    /\ TranslationCalled
    /\ ResumePresent
    /\ route[1].run_job_match
    /\ content_to_translate = synth_reply
    /\ synth_reply # Some(StoredResumeText)

(***************************************************************************)
(* C6.  handle_message ends with a result that has the four fields reply,  *)
(* agents_called, structured and routing_decision, or with an error and no *)
(* result.  A gateway call that fails is the last call of the request (it  *)
(* is not repeated, nothing is called after it) and the request fails with *)
(* nothing returned.                                                       *)
(***************************************************************************)
ResultFields == {"reply", "agents_called", "structured", "routing_decision"}

C6_CompleteResultOrError ==
    /\ result # None =>
         /\ pc = "done"
         /\ error = ""
         /\ DOMAIN result[1] = ResultFields
         /\ result[1].reply \in ReplyTexts
    /\ pc = "done" => result # None
    /\ pc = "failed" => result = None /\ error # ""
    /\ \A i \in DOMAIN llm_calls :
         /\ ~llm_calls[i].ok =>
              i = Len(llm_calls) /\ pc = "failed" /\ error = "RuntimeError" /\ result = None
         /\ \A j \in DOMAIN llm_calls : i # j => llm_calls[i].purpose # llm_calls[j].purpose

\* the synthesis or translation call failed after a capability had been recorded
C6_Witness ==
    /\ pc = "failed"
    /\ structured # <<>>
    /\ agents_called # <<>>
    /\ ~Last(llm_calls).ok
    /\ Last(llm_calls).purpose \in {"synthesis", "translation"}

(***************************************************************************)
(* C7.  When the override does not fire and the classifier's answer does   *)
(* not conform to NLRoute, handle_message fails with the parser's error:   *)
(* no routing decision exists, and no capability agent, search request or  *)
(* gateway call is made.                                                   *)
(***************************************************************************)
NonConformingTexts ==
    { "{\"translate\": true, \"target_language\": \"Urdu (Pakistan)\"}",
      "I think you want a translation.",
      "[]" }

C7_NonConformingRouteFails ==
    (classifier_text # None /\ classifier_text[1] \in NonConformingTexts) =>
        /\ pc = "failed"
        /\ error = "OutputParserException"
        /\ result = None
        /\ route = None
        /\ invoked = <<>>
        /\ llm_calls = <<>>
        /\ web_calls = 0

\* the classifier answered with an object that lacks the required intent
C7_Witness ==
    /\ pc = "failed"
    /\ classifier_text = Some("{\"translate\": true, \"target_language\": \"Urdu (Pakistan)\"}")

(***************************************************************************)
(* C8.  When no capability is actionable and translate is false, the       *)
(* synthesis call is still made: a returned result has the synthesis text  *)
(* as reply, no label and an empty structured, and the only way the        *)
(* request fails is a failed synthesis call.                               *)
(***************************************************************************)
NothingActionable ==
    /\ route # None
    /\ ~route[1].translate
    /\ \A cap \in Capabilities : ~Actionable(cap)

C8_IdleRequestStillAnswered ==
    NothingActionable =>
        /\ pc = "done" =>
             /\ Len(llm_calls) = 1
             /\ llm_calls[1].purpose = "synthesis"
             /\ llm_calls[1].ok
             /\ result[1].reply = llm_calls[1].content
             /\ result[1].agents_called = <<>>
             /\ result[1].structured = <<>>
        /\ pc = "failed" =>
             /\ Len(llm_calls) = 1
             /\ llm_calls[1].purpose = "synthesis"
             /\ ~llm_calls[1].ok

\* flags were set but the inputs were missing, and the request was answered
C8_Witness ==
    /\ pc = "done"
    /\ NothingActionable
    /\ route[1].run_job_match
    /\ route[1].run_company_research

(***************************************************************************)
(* C9.  When the gateway returns text to job-match that json.loads         *)
(* rejects, the agent returns score 0.0, no gaps and the raw text as the   *)
(* only suggestion, and that value is recorded under job_match: the        *)
(* request does not fail at that call.                                     *)
(***************************************************************************)
C9_JobMatchFallback ==
    \A i \in DOMAIN llm_calls :
        (llm_calls[i].purpose = "job_match" /\ llm_calls[i].ok
           /\ ~JsonLoads(llm_calls[i].content).ok) =>
            /\ Has(structured, "job_match")
            /\ structured["job_match"] =
                 [t |-> "dict",
                  v |-> [score |-> [t |-> "num", v |-> "0.0"],
                         gaps |-> [t |-> "list", v |-> <<>>],
                         suggestions |->
                            [t |-> "list",
                             v |-> <<[t |-> "str", v |-> llm_calls[i].content]>>]]]
            /\ "job_match" \in Range(agents_called)
            /\ pc = "failed" => i < Len(llm_calls)

\* a request was answered after job-match had received unparseable text
C9_Witness ==
    /\ pc = "done"
    /\ \E i \in DOMAIN llm_calls :
          /\ llm_calls[i].purpose = "job_match"
          /\ llm_calls[i].content = "Here you go: {\"edits\": []}"

(***************************************************************************)
(* C10.  When the text a capability agent receives fails to parse, the     *)
(* value it returns still has that agent's expected top-level keys, and    *)
(* the request does not fail at that call.                                 *)
(***************************************************************************)
ExpectedKeys(cap) ==
    CASE cap = "job_match" -> {"score", "gaps", "suggestions"}
      [] cap = "section_enhance" -> {"edits"}
      [] cap = "company_research" -> {"summary", "culture", "keywords", "role_alignment"}

C10_FallbackKeepsExpectedKeys ==
    \A i \in DOMAIN llm_calls :
        (llm_calls[i].purpose \in Capabilities /\ llm_calls[i].ok
           /\ ~JsonLoads(llm_calls[i].content).ok) =>
            /\ Has(structured, llm_calls[i].purpose)
            /\ ExpectedKeys(llm_calls[i].purpose) \subseteq Keys(structured[llm_calls[i].purpose])
            /\ pc = "failed" => i < Len(llm_calls)

(***************************************************************************)
(* C11.  Whatever text the gateway returns to a capability agent, valid    *)
(* JSON that is not an object (a list, a number, a string) included, every *)
(* value stored in structured is a mapping from string keys to values.     *)
(***************************************************************************)
C11_StructuredValuesAreMappings ==
    \A cap \in Capabilities : Has(structured, cap) => structured[cap].t = "dict"

(***************************************************************************)
(* C12.  CompanyResearchAgent.run with a company name that is None, empty  *)
(* or only whitespace returns at once a result whose summary, culture,     *)
(* keywords and role_alignment are empty and that carries an error field;  *)
(* no search request is sent and no gateway call is made.                  *)
(***************************************************************************)
BlankName(c) == c = None \/ \A i \in 1..Len(c[1]) : ch(c[1], i) \in {" ", "\n", "\t", "\r"}

C12_BlankCompanyShortCircuits ==
    (agent = "company_research" /\ BlankName(agent_args.company)) =>
        \A i \in DOMAIN runs :
            /\ runs[i].raised = ""
            /\ runs[i].returned # None
            /\ runs[i].returned[1].t = "dict"
            /\ LET res == runs[i].returned[1].v
               IN  /\ {"summary", "culture", "keywords", "role_alignment", "error"}
                         \subseteq DOMAIN res
                   /\ res["summary"] = [t |-> "str", v |-> ""]
                   /\ res["culture"] = [t |-> "list", v |-> <<>>]
                   /\ res["keywords"] = [t |-> "list", v |-> <<>>]
                   /\ res["role_alignment"] = [t |-> "str", v |-> ""]
                   /\ res["error"].t = "str" /\ res["error"].v # ""
            /\ runs[i].http = None
            /\ runs[i].llm = None
            /\ runs[i].prompt = None
            /\ model_answers = <<>>

\* a whitespace-only name was given to an agent that has a search credential
C12_Witness ==
    /\ agent = "company_research"
    /\ agent_args.company = Some(" \n")
    /\ TruthyStr(tavily_key)
    /\ Len(runs) = 2

(***************************************************************************)
(* C13.  In CompanyResearchAgent.run with a company name, a missing search *)
(* credential or a failed search request (connection error, timeout,       *)
(* status of 400 or above, body that is not JSON or not of the expected    *)
(* form) leaves the grounding text empty: the gateway is still called,     *)
(* with the prompt that says no snippets are available, and its answer is  *)
(* turned into a result.  run raises only when the gateway call itself     *)
(* fails.  As stated, every status outside 200..299 counts as a failure.   *)
(***************************************************************************)
\* the body is not an object whose results, if given, is a list of objects
MalformedBody(val) ==
    \/ val.t # "dict"
    \/ /\ Has(val.v, "results")
       /\ \/ val.v["results"].t # "list"
          \/ \E i \in DOMAIN val.v["results"].v : val.v["results"].v[i].t # "dict"

\* the statuses that count as a failed request: as stated every status
\* that is not 2xx, amended the statuses 400 to 599
FailedStatuses(as_stated) == IF as_stated THEN (100..599) \ (200..299) ELSE 400..599

SearchFailed(http, as_stated) ==
    \/ http.fault # ""
    \/ http.fault = "" /\ http.status \in FailedStatuses(as_stated)
    \/ ~http.json.ok
    \/ MalformedBody(http.json.val)

SearchFailureDegrades(as_stated) ==
    agent = "company_research" =>
        \A i \in DOMAIN runs :
            LET r == runs[i]
            IN  /\ r.raised \in {"", "RuntimeError"}
                /\ r.raised = "RuntimeError" <=> (r.llm # None /\ ~r.llm[1].ok)
                /\ r.raised = "" <=> r.returned # None
                /\ (r.prompt # None /\ (r.http = None \/ SearchFailed(r.http[1], as_stated))) =>
                      /\ r.web_snippets = ""
                      /\ r.llm # None
                      /\ r.prompt[1].web_block = NoSnippetsNote
                      /\ r.llm[1].ok =>
                            /\ r.returned # None
                            /\ r.returned[1].t = "dict"
                            /\ ~Has(r.returned[1].v, "raw_sources")
                                  \/ JsonLoads(r.llm[1].content).ok

\* as stated: an answer with a status that is not 2xx gives no grounding
C13_NonSuccessStatusDegrades == SearchFailureDegrades(TRUE)

\* amended: an answer with a status of 400 or above gives no grounding
C13_SearchFailureDegrades == SearchFailureDegrades(FALSE)

\* one call lost the search to status 500 and returned a result without
\* grounding; another got status 301 and took its grounding from the body of
\* that answer
C13_Witness ==
    /\ agent = "company_research"
    /\ \E j, k \in DOMAIN runs :
          /\ runs[j].http # None /\ runs[j].http[1].status = 500
          /\ runs[k].http # None /\ runs[k].http[1].status = 301
          /\ runs[j].returned # None /\ runs[j].web_snippets = ""
          /\ runs[k].returned # None /\ runs[k].web_snippets # ""

(***************************************************************************)
(* C14.  In CompanyResearchAgent.run with a company name, the grounding    *)
(* text put into the prompt is the joined snippets of the results that     *)
(* have content, cut to 6000 characters; when it is not empty, the result  *)
(* returned has a raw_sources field that holds exactly that text, whether  *)
(* the model's answer parsed or the fallback was taken.                    *)
(***************************************************************************)
RECURSIVE WithContent(_)
\* the result items that have content, in order
WithContent(items) ==
    IF items = <<>> THEN <<>>
    ELSE IF Has(items[1].v, "content") /\ items[1].v["content"].t = "str"
            /\ items[1].v["content"].v # ""
         THEN <<items[1]>> \o WithContent(Tail(items))
         ELSE WithContent(Tail(items))

C14_GroundingBoundedAndReported ==
    agent = "company_research" =>
        \A i \in DOMAIN runs :
            LET r == runs[i]
            IN  r.prompt # None =>
                  /\ Len(r.web_snippets) <= 6000
                  /\ (r.http # None /\ ~SearchFailed(r.http[1], FALSE)) =>
                        LET items == WithContent(GetOr(r.http[1].json.val.v, "results",
                                                       JList(<<>>)).v)
                            whole == JoinWith([k \in DOMAIN items |->
                                                  Format(GetOr(items[k].v, "title", JStr("")))
                                                  \o "\n" \o items[k].v["content"].v
                                                  \o "\nSource: "
                                                  \o Format(GetOr(items[k].v, "url", JStr("")))],
                                              "\n\n")
                        IN  /\ r.web_snippets = Slice(whole, 1, 6000)
                            /\ Len(whole) > 6000 => Len(r.web_snippets) = 6000
                  /\ r.web_snippets # "" => r.prompt[1].web_block = r.web_snippets
                  /\ (r.web_snippets # "" /\ r.returned # None) =>
                        /\ r.returned[1].t = "dict"
                        /\ Has(r.returned[1].v, "raw_sources")
                        /\ r.returned[1].v["raw_sources"] = [t |-> "str", v |-> r.web_snippets]

(***************************************************************************)
(* C18.  Two calls of the same capability agent with the same arguments    *)
(* against a temperature-zero model return results with the same fields,   *)
(* for job-match, section-enhance and company-research, whatever the       *)
(* search endpoint does at either call.                                    *)
(***************************************************************************)
C18_SameShapeOnRepeat ==
    \A i, j \in DOMAIN runs :
        (runs[i].returned # None /\ runs[j].returned # None) =>
            /\ runs[i].returned[1].t = runs[j].returned[1].t
            /\ Keys(runs[i].returned[1]) = Keys(runs[j].returned[1])

(***************************************************************************)
(* C15.  generate on a client that has a key, when the upstream call       *)
(* succeeds.  With expect_json: the text is returned parsed if it parses   *)
(* as it is; if not, the part from its first "{" to its last "}" is        *)
(* returned parsed if there is such a part and it parses; if not, generate *)
(* raises ValueError with a message that carries the raw text.  Without    *)
(* expect_json the text is returned as it is.                              *)
(***************************************************************************)
\* the positions of character c in s
Positions(s, c) == {i \in 1..Len(s) : ch(s, i) = c}

\* the part of s from its first "{" to its last "}", None if there is none
BracedPart(s) ==
    LET opens == Positions(s, "{")
        closes == Positions(s, "}")
        first == CHOOSE i \in opens : \A k \in opens : i <= k
        last == CHOOSE j \in closes : \A k \in closes : k <= j
    IN  IF opens = {} \/ closes = {} THEN None
        ELSE IF last < first THEN None
        ELSE Some(Slice(s, first, last))

C15_ExpectJsonParsing ==
    ~demo_mode =>
        \A i \in DOMAIN calls :
            LET c == calls[i]
                text == c.upstream[1].content
                strict == JsonLoads(text)
                part == BracedPart(text)
            IN  /\ c.upstream # None
                /\ c.upstream[1].ok =>
                     IF ~generate_args.expect_json
                     THEN c.returned = Some([t |-> "str", v |-> text]) /\ c.raised = None
                     ELSE IF strict.ok
                     THEN c.returned = Some(strict.val) /\ c.raised = None
                     ELSE IF part # None /\ JsonLoads(part[1]).ok
                     THEN c.returned = Some(JsonLoads(part[1]).val) /\ c.raised = None
                     ELSE /\ c.returned = None
                          /\ c.raised # None
                          /\ c.raised[1].type = "ValueError"
                          /\ Contains(c.raised[1].msg, Repr(text))
                          /\ (~Contains(text, "\n") /\ ~Contains(text, "'")) =>
                                Contains(c.raised[1].msg, text)

\* one call recovered an object nested in prose, another one found braces
\* in the wrong order and failed
C15_Witness ==
    /\ generate_args # <<>>
    /\ generate_args.expect_json
    /\ \E i, j \in DOMAIN calls :
          /\ calls[i].upstream = Some([ok |-> TRUE, content |-> "Sure! {\"a\": {\"b\": 2}} done"])
          /\ calls[i].returned # None
          /\ calls[i].returned[1].t = "dict"
          /\ calls[j].upstream = Some([ok |-> TRUE, content |-> "} oops {"])
          /\ calls[j].raised # None

(***************************************************************************)
(* C16.  generate on a client without a key never calls upstream and       *)
(* returns the canned payload of the first of classify, job_match,         *)
(* section_enhance, company_research (in that order) found in the          *)
(* lower-cased prompt, or the empty default ({} with expect_json, "[]"     *)
(* without) when none is found; calls with the same arguments return       *)
(* equal outputs.                                                          *)
(***************************************************************************)
DemoKeywords == <<"classify", "job_match", "section_enhance", "company_research">>

\* the payload texts, as json.dumps writes them
CannedTexts ==
    << "job_match,section_enhance,company_research",
       "{\"score\": 0.72, \"gaps\": [\"cloud architecture\", \"system design\"], "
           \o "\"suggestions\": [\"Add metrics\", \"Highlight AWS/GCP\"]}",
       "{\"edits\": [{\"index\": 0, \"before\": \"Worked on backend systems\", "
           \o "\"after\": \"Designed backend services handling 1M+ daily requests "
           \o "with 30% lower latency\", "
           \o "\"explanation\": \"Added metric + strong action verb\"}]}",
       "{\"company\": \"ExampleCorp\", \"about\": \"A cloud infra company.\", "
           \o "\"tone\": \"technical, metrics-driven\", "
           \o "\"keywords\": [\"scalability\", \"SRE\", \"distributed systems\"]}" >>

\* what a keyless client is to return for the prompt: the payload of the
\* first keyword the lower-cased prompt holds, as text or as the value the
\* text denotes (the one-edit list of section_enhance is written out)
Canned(prompt, expect_json) ==
    LET pl == Lower(prompt)
        hits == {k \in DOMAIN DemoKeywords : Contains(pl, DemoKeywords[k])}
        first == CHOOSE k \in hits : \A h \in hits : k <= h
    IN  IF hits = {}
        THEN IF expect_json THEN [t |-> "dict", v |-> <<>>] ELSE [t |-> "str", v |-> "[]"]
        ELSE IF ~expect_json THEN [t |-> "str", v |-> CannedTexts[first]]
        ELSE IF first = 1
        THEN [t |-> "list", v |-> <<[t |-> "str", v |-> "job_match"],
                                    [t |-> "str", v |-> "section_enhance"],
                                    [t |-> "str", v |-> "company_research"]>>]
        ELSE IF first = 3
        THEN [t |-> "dict", v |-> [edits |-> [t |-> "list", v |-> <<
                 [t |-> "dict", v |->
                     [index |-> [t |-> "num", v |-> "0"],
                      before |-> [t |-> "str", v |-> "Worked on backend systems"],
                      after |-> [t |-> "str",
                                 v |-> "Designed backend services handling 1M+ daily "
                                       \o "requests with 30% lower latency"],
                      explanation |-> [t |-> "str",
                                       v |-> "Added metric + strong action verb"]]] >>]]]
        ELSE JsonLoads(CannedTexts[first]).val

C16_DemoModeIsCanned ==
    demo_mode =>
        /\ api_key = ""
        /\ \A i \in DOMAIN calls :
             /\ calls[i].upstream = None
             /\ calls[i].raised = None
             /\ calls[i].returned =
                   Some(Canned(generate_args.prompt, generate_args.expect_json))
        /\ \A i, j \in DOMAIN calls : calls[i].returned = calls[j].returned

\* a keyless client answered twice a prompt that names company_research
\* before job_match, in upper and lower case
C16_Witness ==
    /\ demo_mode
    /\ Len(calls) = 2
    /\ generate_args.prompt = "company_research about job_match"
    /\ calls[2].returned[1].t = "dict"
    /\ "score" \in DOMAIN calls[2].returned[1].v

(***************************************************************************)
(* C17.  Once handle_message has produced a result for a /chat_nl request, *)
(* the endpoint returns that result to the caller, whether or not either   *)
(* log_message call fails.                                                 *)
(***************************************************************************)
C17_LoggerFailureDoesNotFailResponse ==
    (endpoint_pc = "done" /\ result # None) =>
        /\ response # None
        /\ response[1].status = 200
        /\ response[1].content # None
        /\ response[1].content[1].result = result[1]

(***************************************************************************)
(* C19.  The reply of the translation pass has the same line breaks and    *)
(* bullet markers, in the same number and order, as the text that was      *)
(* given to it to translate.                                               *)
(***************************************************************************)
\* the bullet markers of the texts here (none of them holds the round bullet
\* U+2022, the other marker the contract names)
BulletMarkers == {"-"}

RECURSIVE MarkersFrom(_, _, _)
\* the line breaks of s from index i on and the bullet markers that open a
\* line, in their order
MarkersFrom(s, i, line_start) ==
    IF i > Len(s) THEN <<>>
    ELSE IF ch(s, i) = "\n" THEN <<"break">> \o MarkersFrom(s, i + 1, TRUE)
    ELSE IF line_start /\ ch(s, i) \in {" ", "\t"} THEN MarkersFrom(s, i + 1, TRUE)
    ELSE IF line_start /\ ch(s, i) \in BulletMarkers
    THEN <<"bullet">> \o MarkersFrom(s, i + 1, FALSE)
    ELSE MarkersFrom(s, i + 1, FALSE)

Markers(s) == MarkersFrom(s, 1, TRUE)

C19_TranslationKeepsMarkers ==
    translation_reply # None =>
        Markers(translation_reply[1]) = Markers(content_to_translate[1])

(***************************************************************************)
(* C20.  handle_message takes its steps one after another in a fixed       *)
(* order: the route is resolved before any agent or model call; the model  *)
(* calls are those of company research, job match and section enhance      *)
(* (those that run, in that order), then one summary call, made for every  *)
(* request that is answered, then at most one translation call.            *)
(* agents_called is a duplicate-free subsequence of company_research,      *)
(* job_match, section_enhance, translation:<language>, and its labels      *)
(* other than the translation marker are the keys of structured.           *)
(***************************************************************************)
StepOrder == <<"company_research", "job_match", "section_enhance", "synthesis", "translation">>

StepOf(label) == IF IsTranslationMarker(label) THEN "translation" ELSE label

Rank(step) == CHOOSE k \in DOMAIN StepOrder : StepOrder[k] = step

\* every step is one of StepOrder and stands before the steps that follow it
\* there, so that none is repeated
InStepOrder(steps) ==
    /\ \A i \in DOMAIN steps : StepOf(steps[i]) \in Range(StepOrder)
    /\ \A i, j \in DOMAIN steps :
         i < j => Rank(StepOf(steps[i])) < Rank(StepOf(steps[j]))

Purposes == [i \in DOMAIN llm_calls |-> llm_calls[i].purpose]

C20_StepsInFixedOrder ==
    /\ route = None =>
          invoked = <<>> /\ llm_calls = <<>> /\ agents_called = <<>> /\ structured = <<>>
    /\ InStepOrder(invoked)
    /\ Range(invoked) \subseteq Capabilities
    /\ InStepOrder(Purposes)
    /\ Range(Purposes) \cap Capabilities \subseteq Range(invoked)
    /\ result # None =>
          Cardinality({i \in DOMAIN llm_calls : llm_calls[i].purpose = "synthesis"}) = 1
    /\ "translation" \in Range(Purposes) => "synthesis" \in Range(Purposes)
    /\ InStepOrder(agents_called)
    /\ "synthesis" \notin Range(agents_called)
    /\ \A i \in DOMAIN agents_called :
         IsTranslationMarker(agents_called[i]) =>
             /\ route[1].target_language # None
             /\ agents_called[i] = "translation:" \o route[1].target_language[1]
             /\ Last(Purposes) = "translation"
    /\ {agents_called[i] : i \in DOMAIN agents_called} \ {l \in Range(agents_called) :
                                                              IsTranslationMarker(l)}
          = DOMAIN structured

\* a request answered after all three agents, the summary and the translation
\* ran
C20_Witness ==
    /\ result # None
    /\ Purposes = StepOrder
    /\ Len(agents_called) = 4
    /\ DOMAIN structured = Capabilities

(***************************************************************************)
(* C21.  The manual override is taken exactly when the lower-cased message *)
(* holds "translate" and at least one alias of the language table; its     *)
(* target language is then that of the alias that stands first in the      *)
(* table among those the message holds, wherever they stand in the         *)
(* message, so that "mexican spanish" gives Mexican Spanish, not Spanish.   *)
(***************************************************************************)
AliasOrder ==
    << "mexican spanish", "spanish", "french", "german", "hindi", "urdu", "japanese",
       "japan", "korean", "korea" >>

LanguageOf(alias) ==
    CASE alias = "mexican spanish" -> "Mexican Spanish"
      [] alias = "spanish" -> "Spanish"
      [] alias = "french" -> "French"
      [] alias = "german" -> "German"
      [] alias = "hindi" -> "Hindi"
      [] alias = "urdu" -> "Urdu"
      [] alias \in {"japanese", "japan"} -> "Japanese"
      [] alias \in {"korean", "korea"} -> "Korean"

\* the places of AliasOrder whose alias the text holds
AliasesIn(text) == {k \in DOMAIN AliasOrder : Contains(text, AliasOrder[k])}

C21_FirstAliasInTableOrderWins ==
    LET msg == Lower(message)
        held == AliasesIn(msg)
        override == DetectManualTranslationRoute(message)
    IN  /\ override = None <=> (~Contains(msg, "translate") \/ held = {})
        /\ override # None =>
              /\ \E k \in held :
                    /\ \A j \in held : k <= j
                    /\ override[1].target_language = Some(LanguageOf(AliasOrder[k]))
              /\ Contains(msg, "mexican spanish") =>
                    override[1].target_language = Some("Mexican Spanish")
        /\ (route # None /\ ~classifier_called) => route = override
        /\ (route # None /\ override # None) => ~classifier_called

\* a request was answered whose message holds two aliases, the one that
\* stands later in the message being the earlier one of the table
C21_Witness ==
    LET msg == Lower(message)
    IN  /\ result # None
        /\ ~classifier_called
        /\ \E k, j \in AliasesIn(msg) :
              /\ k < j
              /\ Find(msg, AliasOrder[k]) > Find(msg, AliasOrder[j])
              /\ result[1].routing_decision.target_language = Some(LanguageOf(AliasOrder[k]))

(***************************************************************************)
(* C22.  A /chat request that carries a non-empty job_description and is   *)
(* answered has had the job-match agent run: job_match is a key of the     *)
(* result, and job_match_forced is in agents_called when the list that     *)
(* Router.route returned did not hold job_match.                           *)
(***************************************************************************)
C22_JobMatchAlwaysRunsWithJobDescription ==
    (/\ chat # <<>>
     /\ TruthyStr(chat.req.job_description)
     /\ chat.response.status = 200) =>
        /\ "job_match" \in Range(chat.invoked)
        /\ "job_match" \in DOMAIN chat.response.content[1].result
        /\ ~Holds(chat.routed[1].labels, "job_match") =>
              Holds(chat.response.content[1].agents_called, "job_match_forced")

(***************************************************************************)
(* C23.  Whatever /chat requests were handled, DEFAULT_AGENTS is the list  *)
(* job_match, section_enhance, company_research.  Router.route returns no  *)
(* empty list, and the list it returns on an empty or label-free answer is *)
(* that default.                                                           *)
(***************************************************************************)
C23_DefaultAgentsUnchanged ==
    /\ default_agents = <<"job_match", "section_enhance", "company_research">>
    /\ (chat # <<>> /\ chat.routed # None) =>
          /\ chat.routed[1].labels # <<>>
          /\ chat.routed[1].shared =>
                chat.routed[1].labels = <<"job_match", "section_enhance", "company_research">>
          /\ chat.response.status = 200 =>
                \A i \in DOMAIN chat.routed[1].labels :
                    chat.response.content[1].agents_called[i] = chat.routed[1].labels[i]

\* a later request got the default list and had job match run on it
C23_Witness ==
    /\ chats >= 2
    /\ chat.routed # None
    /\ chat.routed[1].shared
    /\ "job_match" \in Range(chat.invoked)
    /\ chat.response.status = 200

(***************************************************************************)
(* C24.  apply_changes leaves every stored version as it was.  A call that *)
(* names no stored base version is answered 404 and adds nothing; a call   *)
(* that succeeds adds one version, whose parent is the base version and    *)
(* whose text is the base text after the edits, taken in order: an edit    *)
(* with an empty after is skipped, a before that occurs in the text has    *)
(* its first occurrence replaced by after, and otherwise after is appended *)
(* on a new line.  Stated of every call, with upload_resume and other      *)
(* apply_changes requests running between its steps.                       *)
(***************************************************************************)
\* text with its first occurrence of part, which it holds, replaced by by
FirstOccurrenceReplaced(text, part, by) ==
    LET at == CHOOSE i \in 1..(Len(text) + 1) :
                  /\ Slice(text, i, i + Len(part) - 1) = part
                  /\ \A j \in 1..(i - 1) : Slice(text, j, j + Len(part) - 1) # part
    IN  Slice(text, 1, at - 1) \o by \o Slice(text, at + Len(part), Len(text))

\* before is a string and a substring of the text, as the empty string is
\* of every text
Occurs(before, text) == before # None /\ Contains(text, before[1])

RECURSIVE EditedText(_, _, _)
\* the text after the first n edits
EditedText(text, edits, n) ==
    IF n = 0 THEN text
    ELSE LET sofar == EditedText(text, edits, n - 1)
             edit == edits[n]
         IN  IF edit.after = None \/ edit.after = Some("") THEN sofar
             ELSE IF Occurs(edit.before, sofar)
             THEN FirstOccurrenceReplaced(sofar, edit.before[1], edit.after[1])
             ELSE sofar \o "\n" \o edit.after[1]

\* the requests, of either kind, that inserted the row id
Inserters(id) ==
    Cardinality({i \in DOMAIN applied : id \in applied[i].added})
        + Cardinality({j \in DOMAIN uploads : id \in uploads[j].added})

\* the frame and the effect of every apply_changes call; rows are the rows
\* its lookup of the base version ran against
C24_ApplyChangesAsStated ==
    /\ \A id \in DOMAIN StoredVersions :
          id \in DOMAIN versions /\ versions[id] = StoredVersions[id]
    /\ \A i \in DOMAIN applied :
          LET call == applied[i]
              req == call.req
              rows == call.rows_before
          IN  /\ \A id \in DOMAIN rows : id \in DOMAIN versions /\ versions[id] = rows[id]
              /\ req.base_version_id \notin DOMAIN rows =>
                    /\ call.added = {}
                    /\ call.response # None
                    /\ call.response[1].status = 404
              /\ call.response # None /\ call.response[1].status = 200 =>
                    /\ call.added = {call.response[1].content[1].new_version_id}
                    /\ \A id \in call.added :
                          /\ Inserters(id) = 1
                          /\ id \notin DOMAIN rows
                          /\ versions[id].parent_version = Some(req.base_version_id)
                          /\ versions[id].raw_text =
                                Some(EditedText(rows[req.base_version_id].raw_text[1],
                                                req.edits, Len(req.edits)))

(***************************************************************************)
(* C25.  /chat_nl calls the orchestrator with role, company and            *)
(* job_description absent.  Whatever the route, company research is not    *)
(* entered and is in neither agents_called nor structured, and job match,  *)
(* when it runs, is given the user message as the job description.  A      *)
(* body without a version id, without a message, or naming a version the   *)
(* store does not have is answered 400, 400 or 404 without the             *)
(* orchestrator being called; any other body reaches it.                   *)
(***************************************************************************)
\* the body has a usable value under one of the spellings
Names(d, keys) == \E k \in DOMAIN keys : Truthy(GetOr(d, keys[k], JNull))

C25_ChatNlPassesNoContext ==
    LET has_id == Names(body, VersionIdKeys)
        has_message == Names(body, MessageKeys)
        known == has_id /\ ParseInt(RequestVersionId.v) \in DOMAIN StoreVersions
        rejected == ~has_id \/ ~has_message \/ ~known
    IN  /\ pc # "idle" =>
              /\ role = None /\ company = None /\ job_description = None
              /\ has_message /\ message = RequestMessage.v
              /\ resume_version_id = Some(ParseInt(RequestVersionId.v))
        /\ "company_research" \notin Range(invoked)
        /\ "company_research" \notin Range(agents_called)
        /\ "company_research" \notin DOMAIN structured
        /\ \A i \in DOMAIN llm_calls : llm_calls[i].purpose # "company_research"
        /\ "job_match" \in Range(invoked) =>
              /\ args["job_match"].job_description = message
              /\ args["job_match"].resume_text = StoreVersions[resume_version_id[1]][1]
        /\ endpoint_pc # "start" => (pc = "idle" <=> rejected)
        /\ (endpoint_pc # "start" /\ rejected) =>
              /\ endpoint_pc = "done"
              /\ logged = <<>>
              /\ response # None
              /\ response[1].status = IF ~has_id \/ ~has_message THEN 400 ELSE 404
              /\ response[1].detail =
                    IF ~has_id THEN "resume_version_id is required"
                    ELSE IF ~has_message THEN "user_message is required"
                    ELSE "version not found"
        /\ (response # None /\ response[1].status = 200) =>
              "company_research" \notin DOMAIN response[1].content[1].result.structured

\* a request was answered whose route asked for company research and job
\* match: job match ran on the user message, company research did not run
C25_Witness ==
    /\ endpoint_pc = "done"
    /\ response # None
    /\ response[1].status = 200
    /\ route[1].run_company_research
    /\ "job_match" \in Range(agents_called)
    /\ args["job_match"].job_description = "Polish my French CV"
    /\ Len(logged) = 2

====
